---- MODULE Spec2Model ----
(***************************************************************************)
(* Model of the OpenWorkers runtime Worker supervisor: Worker::exec with   *)
(* its CPU enforcer, wall-clock watchdog and outer timed wait, the         *)
(* array-buffer allocator, and the fetch-event host ops with the streaming *)
(* chunk channel.                                                          *)
(*                                                                         *)
(* Time.  `now` is the wall-clock time of the exec in flight and `cpu` the *)
(* CPU time its thread has consumed.  The exec thread's own steps take no  *)
(* time except a JS burn step (wall and CPU advance together) and an idle  *)
(* wait in the event loop (only the wall clock advances).  The watchdog    *)
(* thread and the signal-processing thread are scheduled arbitrarily late. *)
(***************************************************************************)
EXTENDS Integers, Sequences, FiniteSets, TLC

\* ---------------------------------------------------------------- bounds
MaxCpuMs   == 1      \* max_cpu_time_ms is drawn from 0..MaxCpuMs
MaxWallMs  == 3      \* max_wall_clock_time_ms is 0 or MaxWallMs
MaxJsSteps == 3      \* operations a script performs in one exec (its loop and
                     \* its returns not counted)
MaxExecs   == 1      \* exec calls made on one Worker
MaxHeap    == 1      \* allocator maximum (bytes) of the Worker of Spec

\* bounds of SpecAlloc
AllocMaxHeap == 3    \* the allocator maximum is drawn from 0..AllocMaxHeap
AllocMaxSize == 4    \* sizes requested are drawn from 0..AllocMaxSize
AllocMaxLive == 3    \* blocks alive at once
MaxAllocThreads == 2 \* engine threads that call the allocator at once

\* bound of SpecStream
MaxChunks == 18      \* chunks pushed on one chunk handle

\* ------------------------------------------------------------ error texts
\* A text is a sequence of words; the words stand for the substrings the
\* code searches for, "other" for anything else.
Words == {"wall", "abf", "range", "oom", "other"}

\* The texts a script raises; <<"range", "abf">> is the engine's own
\* "RangeError: Array buffer allocation failed".
Texts == {<<"wall">>, <<"range", "abf">>, <<"other">>}

\* str::contains(pattern): the pattern occurs somewhere in the text.
Contains(text, word) == \E i \in DOMAIN text : text[i] = word

\* Option<String> / Result<(), String>: <<>> is None / Ok, <<t>> is Some(t) / Err(t).
None == <<>>
Some(t) == <<t>>

\* Err("Wall-clock timeout exceeded") built by exec on the outer timeout.
WallTimeoutMsg == <<"wall">>

\* What the engine reports when running JS was stopped by terminate_execution.
TerminatedMsg == <<"other">>

\* ------------------------------------------------------ termination reason
Reason(kind) == [kind |-> kind, detail |-> <<>>]
Exception(text) == [kind |-> "Exception", detail |-> text]
InitializationError(text) == [kind |-> "InitializationError", detail |-> text]
NoReason == Reason("None")

VARIABLES
    \* Worker
    limits,             \* RuntimeLimits: [cpu, wall, heap]
    aborted,            \* Worker.aborted
    pc,                 \* where the exec thread is
    execs,              \* exec calls that returned
    reason,             \* what the last exec returned
    \* time
    now, cpu, waited,
    \* isolate / script
    terminating,        \* terminate_execution requested and not yet taken
    loop,               \* the running JS is in a loop that never ends
    op,                 \* the pending async op: "none", "timer" or "never"
    wake,               \* time left until the pending timer completes
    sink,               \* where the task's ResponseSender is
    delivered,          \* responses the host's receiver obtained
    \* exec locals
    trigger_exception, result, memory_limit_hit, was_aborted,
    cpu_limit_hit, wall_clock_hit,
    \* history of the exec in flight
    outerElapsed, refused, threw, looped, burned, stale, jsSteps,
    \* CPU enforcer
    nextId, registry, terminated, enforcer, timerArmed, sigq, sigpc, sigData,
    \* wall-clock watchdog
    wd, cancelSent, triggered,
    \* array-buffer allocator
    max, count, live, memory_limit_hit_flag, lastPtr,
    calls,              \* the allocator call each engine thread is in
    \* streaming response body
    stream,             \* the FetchStreamTx resource: "none", "open" or "ended"
    permits,            \* free slots of the chunk channel
    chan,               \* chunks in the channel
    waiters,            \* suspended sends queued for a slot
    granted,            \* suspended sends that were handed a slot and woken
    pushed,             \* chunks the script pushed, in order
    received,           \* chunks the consumer received, in order
    rxOpen,             \* the consumer still holds the receiver
    \* host ops and their handles
    table,              \* OpState.resource_table: what each rid holds
    next_rid,           \* the rid the next add returns
    outcome,            \* the last op call: its name, its handle, its result
    \* the host's mapping of reasons to HTTP statuses
    served,             \* reasons mapped so far, each with what the host derived
    \* the task's ResponseSink and the host's receiver
    respond_args,       \* arguments of the respond calls that reached the send
    rx,                 \* HttpResponses sent to the host's receiver, in order
    sends,              \* per rid: HttpResponses sent on the FetchTx it held
    \* the CPU enforcers of the process
    ENFORCER_COUNTER,   \* the id the next CpuEnforcer::new takes
    ENFORCER_REGISTRY,  \* per id: the isolate (Worker) of its entry, 0 without entry
    made_for,           \* per id: the Worker whose exec took the id, 0 if not taken
    terminated_flag,    \* per id: the AtomicBool shared by enforcer and entry
    timer,              \* per id: "none", "armed", "fired" or "deleted"
    sigalrm,            \* ids of the SIGALRMs not yet taken by the signal thread
    sigthread,          \* the signal thread: position, entry it holds, last log line
    thread,             \* per Worker: position of its exec, the enforcer it holds
    isolate             \* per Worker: termination pending, ids it was terminated for

workerVars == <<limits, aborted, pc, execs, reason>>
timeVars == <<now, cpu, waited>>
jsVars == <<terminating, loop, op, wake, sink, delivered>>
localVars == <<trigger_exception, result, memory_limit_hit, was_aborted,
               cpu_limit_hit, wall_clock_hit>>
histVars == <<outerElapsed, refused, threw, looped, burned, stale, jsSteps>>
cpuVars == <<nextId, registry, terminated, enforcer, timerArmed, sigq, sigpc, sigData>>
wdVars == <<wd, cancelSent, triggered>>
allocVars == <<max, count, live, memory_limit_hit_flag, lastPtr, calls>>

streamVars == <<stream, permits, chan, waiters, granted, pushed, received, rxOpen>>
opVars == <<table, next_rid, outcome>>
statusVars == <<served>>
sinkVars == <<respond_args, rx, sends>>
enfVars == <<ENFORCER_COUNTER, ENFORCER_REGISTRY, made_for, terminated_flag, timer,
             sigalrm, sigthread, thread, isolate>>
hostVars == <<streamVars, opVars, statusVars, sinkVars, enfVars>>
execVars == <<workerVars, timeVars, jsVars, localVars, histVars, cpuVars, wdVars>>

vars == <<execVars, allocVars, hostVars>>
nonEnfVars == <<execVars, allocVars, streamVars, opVars, statusVars, sinkVars>>

Min(a, b) == IF a < b THEN a ELSE b

RECURSIVE SumSeq(_)
SumSeq(s) == IF s = <<>> THEN 0 ELSE Head(s) + SumSeq(Tail(s))

RemoveAt(s, i) == [j \in 1..(Len(s) - 1) |-> IF j < i THEN s[j] ELSE s[j + 1]]

\* ------------------------------------------------- array-buffer allocator
\* usize arithmetic: the counter is an AtomicUsize, fetch_add and fetch_sub wrap.
WordBits == 5
Word == 2 ^ WordBits

WrapAdd(a, b) == (a + b) % Word
WrapSub(a, b) == (a - b + Word) % Word

\* allocate / allocate_uninitialized: fetch_add(n), load, compare with max,
\* roll back with fetch_sub(n) on refusal.
AllocCount_NoRollback(c, n, m) ==
    LET count_loaded == WrapAdd(c, n)
    IN  [count |-> count_loaded, ok |-> count_loaded <= m]

AllocCount_RefusesAtMax(c, n, m) ==
    LET count_loaded == WrapAdd(c, n)
    IN  IF count_loaded >= m
        THEN [count |-> WrapSub(count_loaded, n), ok |-> FALSE]
        ELSE [count |-> count_loaded, ok |-> TRUE]

AllocCount(c, n, m) ==
    LET count_loaded == WrapAdd(c, n)
    IN  IF count_loaded > m
        THEN [count |-> WrapSub(count_loaded, n), ok |-> FALSE]
        ELSE [count |-> count_loaded, ok |-> TRUE]

\* free: fetch_sub(n).
FreeCount(c, n) == WrapSub(c, n)

\* reallocate whose refusal leaves the delta in the counter.
ReallocCount_NoRollback(c, oldlen, newlen, m) ==
    LET delta == WrapSub(newlen, oldlen)
        count_loaded == WrapAdd(c, delta)
    IN  [count |-> count_loaded, ok |-> count_loaded <= m]

\* reallocate: fetch_add(newlen.wrapping_sub(oldlen)), load, compare, roll back.
ReallocCount(c, oldlen, newlen, m) ==
    LET delta == WrapSub(newlen, oldlen)
        count_loaded == WrapAdd(c, delta)
    IN  IF count_loaded > m
        THEN [count |-> WrapSub(count_loaded, delta), ok |-> FALSE]
        ELSE [count |-> count_loaded, ok |-> TRUE]

\* The shared "memory-limit-hit" flag after a call: a refusal sets it.
MarkMemoryLimitHit(flag, ok) == flag \/ ~ok

Allocate(n) ==
    LET r == AllocCount(count, n, max)
    IN  /\ count' = r.count
        /\ live' = IF r.ok THEN Append(live, n) ELSE live
        /\ memory_limit_hit_flag' = MarkMemoryLimitHit(memory_limit_hit_flag, r.ok)
        /\ lastPtr' = IF r.ok THEN "block" ELSE "null"
        /\ UNCHANGED <<max, calls>>

AllocateUninitialized(n) ==
    LET r == AllocCount(count, n, max)
    IN  /\ count' = r.count
        /\ live' = IF r.ok THEN Append(live, n) ELSE live
        /\ memory_limit_hit_flag' = MarkMemoryLimitHit(memory_limit_hit_flag, r.ok)
        /\ lastPtr' = IF r.ok THEN "block" ELSE "null"
        /\ UNCHANGED <<max, calls>>

Free(i) ==
    /\ i \in DOMAIN live
    /\ count' = FreeCount(count, live[i])
    /\ live' = RemoveAt(live, i)
    /\ lastPtr' = "freed"
    /\ UNCHANGED <<max, memory_limit_hit_flag, calls>>

Reallocate(i, newlen) ==
    /\ i \in DOMAIN live
    /\ LET r == ReallocCount(count, live[i], newlen, max)
       IN  /\ count' = r.count
           /\ live' = IF r.ok THEN [live EXCEPT ![i] = newlen] ELSE live
           /\ memory_limit_hit_flag' = MarkMemoryLimitHit(memory_limit_hit_flag, r.ok)
           /\ lastPtr' = IF r.ok THEN "block" ELSE "null"
           /\ UNCHANGED <<max, calls>>

\* ------------------------------------- allocator calls of several threads
\* The allocator is shared by reference and its counter is an atomic: each
\* fetch_add, load and fetch_sub is one step, and the steps of calls made on
\* different threads interleave.
AllocThreads == 1..MaxAllocThreads

\* A thread that is in no call; a call after its fetch_add ("added") and
\* after its load ("loaded"), with the block index (0 for an allocation), the
\* old and the new length, and the value loaded.
NoCall == [pc |-> "idle", op |-> "none", i |-> 0, oldlen |-> 0, n |-> 0, loaded |-> 0]

\* A saturating subtraction in place of the wrapping one.
Delta_Saturating(call) == IF call.n < call.oldlen THEN 0 ELSE call.n - call.oldlen

\* The amount the call adds to the counter: n, or newlen.wrapping_sub(oldlen).
Delta(call) == WrapSub(call.n, call.oldlen)

InCall(t) == calls[t].pc # "idle"

\* allocate / allocate_uninitialized, first statement: count.fetch_add(n).
CallAllocate(t, entry, n) ==
    /\ ~InCall(t)
    /\ Len(live) + Cardinality({u \in AllocThreads : InCall(u) /\ calls[u].i = 0})
          < AllocMaxLive
    /\ count' = WrapAdd(count, n)
    /\ calls' = [calls EXCEPT ![t] = [pc |-> "added", op |-> entry, i |-> 0,
                                      oldlen |-> 0, n |-> n, loaded |-> 0]]
    /\ UNCHANGED <<max, live, memory_limit_hit_flag, lastPtr>>

\* reallocate, first statement: count.fetch_add(newlen.wrapping_sub(oldlen)).
\* The engine hands a block to one call at a time.
CallReallocate(t, i, newlen) ==
    /\ ~InCall(t)
    /\ i \in DOMAIN live
    /\ \A u \in AllocThreads : InCall(u) => calls[u].i # i
    /\ LET call == [pc |-> "added", op |-> "reallocate", i |-> i,
                    oldlen |-> live[i], n |-> newlen, loaded |-> 0]
       IN  /\ count' = WrapAdd(count, Delta(call))
           /\ calls' = [calls EXCEPT ![t] = call]
    /\ UNCHANGED <<max, live, memory_limit_hit_flag, lastPtr>>

\* let count_loaded = allocator.count.load(SeqCst)
CallLoad(t) ==
    /\ calls[t].pc = "added"
    /\ calls' = [calls EXCEPT ![t].pc = "loaded", ![t].loaded = count]
    /\ UNCHANGED <<max, count, live, memory_limit_hit_flag, lastPtr>>

\* if count_loaded > allocator.max { fetch_sub(delta); return null }, else the
\* block is vended (for reallocate: the old block freed, the new one vended).
CallDecide(t) ==
    /\ calls[t].pc = "loaded"
    /\ IF calls[t].loaded > max
       THEN /\ count' = WrapSub(count, Delta(calls[t]))
            /\ memory_limit_hit_flag' = MarkMemoryLimitHit(memory_limit_hit_flag, FALSE)
            /\ lastPtr' = "null"
            /\ UNCHANGED live
       ELSE /\ live' = IF calls[t].op = "reallocate"
                       THEN [live EXCEPT ![calls[t].i] = calls[t].n]
                       ELSE Append(live, calls[t].n)
            /\ lastPtr' = "block"
            /\ UNCHANGED <<count, memory_limit_hit_flag>>
    /\ calls' = [calls EXCEPT ![t] = NoCall]
    /\ max' = max

\* free: count.fetch_sub(n), one step.  Blocks are named by their position,
\* so a block is freed while no reallocate holds a position.
CallFree(t, i) ==
    /\ ~InCall(t)
    /\ i \in DOMAIN live
    /\ \A u \in AllocThreads : calls[u].op # "reallocate"
    /\ count' = FreeCount(count, live[i])
    /\ live' = RemoveAt(live, i)
    /\ lastPtr' = "freed"
    /\ UNCHANGED <<max, memory_limit_hit_flag, calls>>

\* ------------------------------------------------------- reason of an exec
IsMemoryText(text) ==
    \/ Contains(text, "abf")
    \/ Contains(text, "range")
    \/ Contains(text, "oom")

Classify(text) == IF IsMemoryText(text) THEN Reason("MemoryLimit") ELSE Exception(text)

\* result.as_ref().err().map(|e| e.to_string().contains("Wall-clock timeout exceeded"))
TokioTimeoutHit(res) == res # None /\ Contains(res[1], "wall")

ComputeReason(cpuHit, wallHit, res, memHit, abortHit, trigExc) ==
    IF cpuHit THEN Reason("CpuTimeLimit")
    ELSE IF wallHit \/ TokioTimeoutHit(res) THEN Reason("WallClockTimeout")
    ELSE IF memHit THEN Reason("MemoryLimit")
    ELSE IF abortHit THEN Reason("Aborted")
    ELSE IF trigExc # None THEN Classify(trigExc[1])
    ELSE IF res # None THEN Classify(res[1])
    ELSE Reason("Success")

\* ------------------------------------------------------------ CPU enforcer
EnforcerIds == 1..MaxExecs

\* CLOCK_THREAD_CPUTIME_ID: the thread's clock runs while it executes JS and
\* stands still while it waits in the event loop.
\* (The counter saturates once the budget, or 1 without a budget, is reached.)
CpuCap == IF limits.cpu = 0 THEN 1 ELSE limits.cpu
CpuAfterBurn(c) == Min(c + 1, CpuCap)
CpuAfterIdle_Charged(c) == Min(c + 1, CpuCap)
CpuAfterIdle(c) == c

\* One time unit passes: the wall clock of the exec, the time left of the
\* pending timer.  Both saturate where no deadline can tell the difference.
NowAfter(t) == Min(t + 1, limits.wall)
WakeAfter(w) == IF w > 0 THEN w - 1 ELSE w

\* The thread's CPU clock moves to c; the one-shot timer (it_interval zero),
\* if armed and expired, makes the kernel queue SIGALRM carrying the enforcer id.
Charge(c) ==
    /\ cpu' = c
    /\ IF timerArmed /\ c >= limits.cpu
       THEN sigq' = Append(sigq, enforcer) /\ timerArmed' = FALSE
       ELSE UNCHANGED <<sigq, timerArmed>>

\* signal_handler_thread: take the next signal, look its id up in the registry.
SigLookup ==
    /\ sigpc = "wait"
    /\ sigq # <<>>
    /\ sigq' = Tail(sigq)
    /\ IF Head(sigq) \in registry
       THEN sigpc' = "found" /\ sigData' = Head(sigq)
       ELSE UNCHANGED <<sigpc, sigData>>
    /\ UNCHANGED <<workerVars, timeVars, jsVars, localVars, histVars, wdVars, allocVars,
                   nextId, registry, terminated, enforcer, timerArmed>>
    /\ UNCHANGED hostVars

\* terminated.store(true)
SigMark ==
    /\ sigpc = "found"
    /\ terminated' = [terminated EXCEPT ![sigData] = TRUE]
    /\ sigpc' = "marked"
    /\ UNCHANGED <<workerVars, timeVars, jsVars, localVars, histVars, wdVars, allocVars,
                   nextId, registry, enforcer, timerArmed, sigq, sigData>>
    /\ UNCHANGED hostVars

\* isolate_handle.terminate_execution()
SigTerminate ==
    /\ sigpc = "marked"
    /\ terminating' = TRUE
    /\ sigpc' = "wait"
    /\ UNCHANGED <<workerVars, timeVars, localVars, histVars, wdVars, allocVars,
                   loop, op, wake, sink, delivered,
                   nextId, registry, terminated, enforcer, timerArmed, sigq, sigData>>
    /\ UNCHANGED hostVars

\* ------------------------------------------------------ wall-clock watchdog
\* The guard's triggered flag, set by the watchdog when its timeout expires,
\* and read by was_triggered().
MarkTriggered(flag) == TRUE
WasTriggered == triggered

\* recv_timeout returned Err(Timeout): terminate the isolate.
WatchdogTimeout ==
    /\ wd = "waiting"
    /\ now >= limits.wall
    /\ terminating' = TRUE
    /\ triggered' = MarkTriggered(triggered)
    /\ wd' = "exited"
    /\ UNCHANGED <<workerVars, timeVars, localVars, histVars, cpuVars, allocVars,
                   loop, op, wake, sink, delivered, cancelSent>>
    /\ UNCHANGED hostVars

\* recv_timeout returned Ok(()): cancelled.
WatchdogCancelled_Terminates ==
    /\ wd = "waiting"
    /\ cancelSent
    /\ terminating' = TRUE
    /\ wd' = "exited"
    /\ UNCHANGED <<workerVars, timeVars, localVars, histVars, cpuVars, allocVars,
                   loop, op, wake, sink, delivered, cancelSent, triggered>>
    /\ UNCHANGED hostVars

WatchdogCancelled ==
    /\ wd = "waiting"
    /\ cancelSent
    /\ wd' = "exited"
    /\ UNCHANGED <<workerVars, timeVars, jsVars, localVars, histVars, cpuVars, allocVars,
                   cancelSent, triggered>>
    /\ UNCHANGED hostVars

\* ------------------------------------------------------------ Worker::abort
\* abort takes &mut self, as exec does: it can be called only while no exec
\* is in flight.
Abort ==
    /\ pc = "idle"
    /\ aborted' = TRUE
    /\ terminating' = TRUE
    /\ UNCHANGED <<limits, pc, execs, reason, timeVars, localVars, histVars, cpuVars,
                   wdVars, allocVars, loop, op, wake, sink, delivered>>
    /\ UNCHANGED hostVars

\* ------------------------------------------------------------- Worker::exec
\* if self.aborted.load(SeqCst) { return Err(Aborted) }
AbortedAtEntry_Ignored == FALSE
AbortedAtEntry == aborted

\* CpuEnforcer::new: None for a budget of 0, otherwise a fresh id, a registry
\* entry with a cleared flag, and the armed timer.
ArmCpuEnforcer ==
    IF limits.cpu = 0
    THEN /\ enforcer' = 0
         /\ timerArmed' = FALSE
         /\ UNCHANGED <<nextId, registry, terminated>>
    ELSE /\ enforcer' = nextId
         /\ nextId' = nextId + 1
         /\ registry' = registry \cup {nextId}
         /\ terminated' = [terminated EXCEPT ![nextId] = FALSE]
         /\ timerArmed' = TRUE

\* TimeoutGuard::new: no watchdog thread for a budget of 0.
ArmWallGuard_NoThread ==
    /\ wd' = "none"
    /\ cancelSent' = FALSE
    /\ triggered' = FALSE

ArmWallGuard ==
    /\ wd' = IF limits.wall = 0 THEN "none" ELSE "waiting"
    /\ cancelSent' = FALSE
    /\ triggered' = FALSE

\* A Task is Task::Fetch(Option<FetchInit>): its payload, or None once the
\* payload has been taken.
Tasks == {Some("FetchInit"), None}

\* The payload unwrapped before the abort check.
EntryOutcome_UnwrapFirst(task) ==
    IF task = None THEN "panic"
    ELSE IF AbortedAtEntry THEN "aborted"
    ELSE "run"

\* How an exec starts: the abort check comes first and returns; exec_task
\* unwraps the payload afterwards, and panics when it has been taken.
EntryOutcome(task) ==
    IF AbortedAtEntry THEN "aborted"
    ELSE IF task = None THEN "panic"
    ELSE "run"

\* The abort check; then the guards are armed, exec_task puts the task into
\* the resource table (data.take().unwrap()) and calls the trigger function
\* with its rid.  A panic unwinds out of exec and drops the guards.
ExecBegin(task) ==
    /\ pc = "idle"
    /\ execs < MaxExecs
    /\ IF EntryOutcome(task) = "aborted"
       THEN /\ reason' = Reason("Aborted")
            /\ execs' = execs + 1
            /\ UNCHANGED <<limits, aborted, pc, timeVars, jsVars, localVars, histVars,
                           cpuVars, wdVars, allocVars>>
       ELSE IF EntryOutcome(task) = "panic"
       THEN /\ pc' = "panic"
            /\ UNCHANGED <<limits, aborted, execs, reason, timeVars, jsVars, localVars,
                           histVars, cpuVars, wdVars, allocVars>>
       ELSE /\ pc' = "sync"
            /\ reason' = NoReason
            /\ now' = 0 /\ cpu' = 0 /\ waited' = 0
            /\ ArmCpuEnforcer
            /\ ArmWallGuard
            /\ sink' = "task" /\ delivered' = 0 /\ loop' = FALSE
            /\ trigger_exception' = None /\ result' = None
            /\ memory_limit_hit' = FALSE /\ was_aborted' = FALSE
            /\ cpu_limit_hit' = FALSE /\ wall_clock_hit' = FALSE
            /\ outerElapsed' = FALSE /\ refused' = FALSE /\ threw' = FALSE
            /\ looped' = FALSE /\ burned' = FALSE
            /\ jsSteps' = 0
            /\ stale' = (\/ terminating \/ op # "none" \/ memory_limit_hit_flag
                          \/ sigq # <<>> \/ sigpc # "wait")
            /\ UNCHANGED <<limits, aborted, execs, terminating, op, wake,
                           sigq, sigpc, sigData, allocVars>>
    \* the task comes with the receiver of its own ResponseSink
    /\ respond_args' = <<>> /\ rx' = <<>>
    /\ UNCHANGED <<streamVars, opVars, statusVars, sends, enfVars>>

\* ---- the script, running on the exec thread (pc "sync": inside the trigger
\* ---- call; pc "async": inside a callback run by the event loop)
InJs == pc \in {"sync", "async"}
CanStep == InJs /\ ~loop /\ jsSteps < MaxJsSteps

\* op_fetch_init: take::<FetchInit>(rid).unwrap(), then add FetchTx.
JsFetchInit ==
    /\ CanStep
    /\ IF sink = "task"
       THEN sink' = "tx" /\ pc' = pc
       ELSE sink' = sink /\ pc' = "panic"
    /\ jsSteps' = jsSteps + 1
    /\ UNCHANGED <<limits, aborted, execs, reason, timeVars, localVars,
                   outerElapsed, refused, threw, looped, burned, stale,
                   cpuVars, wdVars, allocVars, terminating, loop, op, wake, delivered>>
    /\ UNCHANGED hostVars

\* The arguments of op_fetch_respond: ResponseMeta {status, headerList} and
\* the optional body buffer (None, a buffer of no bytes, a buffer of bytes).
\* status is a u16 that the op copies into the response: one value of the
\* range of HTTP statuses and one outside it stand for all of them.
Statuses == {404, 600}
HeaderLists == {<<>>, <<<<"k", "v">>>>}
ResponseMetas == [status : Statuses, headers : HeaderLists]
Bodies == {None, Some(<<>>), Some(<<"b">>)}

\* ResponseBody::None, ResponseBody::Bytes(bytes)
ResponseBodyNone == [kind |-> "None", bytes |-> <<>>]
ResponseBodyBytes(bytes) == [kind |-> "Bytes", bytes |-> bytes]

\* The HttpResponse op_fetch_respond builds from its arguments.
BufferedResponse_NoBody(meta, body) ==
    [status |-> meta.status, headers |-> meta.headers, body |-> ResponseBodyNone]

BufferedResponse(meta, body) ==
    [status |-> meta.status,
     headers |-> meta.headers,
     body |-> IF body = None THEN ResponseBodyNone ELSE ResponseBodyBytes(body[1])]

\* op_fetch_respond: take::<FetchTx>(rid)?, then send the response.
JsRespond(meta, body) ==
    /\ CanStep
    /\ sink = "tx"
    /\ sink' = "sent"
    /\ delivered' = delivered + 1
    /\ respond_args' = Append(respond_args, [meta |-> meta, body |-> body])
    /\ rx' = Append(rx, BufferedResponse(meta, body))
    /\ jsSteps' = jsSteps + 1
    /\ UNCHANGED <<workerVars, timeVars, localVars, outerElapsed, refused, threw, looped, burned, stale,
                   cpuVars, wdVars, allocVars, terminating, loop, op, wake>>
    /\ UNCHANGED <<streamVars, opVars, statusVars, sends, enfVars>>

\* new ArrayBuffer(n)
ExecSizes == 1..(MaxHeap + 1)

JsAlloc(n) ==
    /\ CanStep
    /\ Allocate(n)
    /\ refused' = (refused \/ lastPtr' = "null")
    /\ jsSteps' = jsSteps + 1
    /\ UNCHANGED <<workerVars, timeVars, jsVars, localVars, cpuVars, wdVars,
                   outerElapsed, threw, looped, burned, stale>>
    /\ UNCHANGED hostVars

\* One time unit of computation.
JsBurn ==
    /\ InJs
    /\ loop \/ jsSteps < MaxJsSteps
    /\ jsSteps' = IF loop THEN jsSteps ELSE jsSteps + 1
    /\ now' = NowAfter(now)
    /\ waited' = IF pc = "async" THEN NowAfter(waited) ELSE waited
    /\ wake' = WakeAfter(wake)
    /\ Charge(CpuAfterBurn(cpu))
    /\ burned' = TRUE
    /\ UNCHANGED <<workerVars, localVars, outerElapsed, refused, threw, looped, stale,
                   wdVars, allocVars, terminating, loop, op, sink, delivered,
                   nextId, registry, terminated, enforcer, sigpc, sigData>>
    /\ UNCHANGED hostVars

\* while (true) {}
JsLoop ==
    /\ CanStep
    /\ loop' = TRUE
    /\ looped' = TRUE
    /\ jsSteps' = jsSteps + 1
    /\ UNCHANGED <<workerVars, timeVars, localVars, cpuVars, wdVars, allocVars,
                   terminating, op, wake, sink, delivered,
                   outerElapsed, refused, threw, burned, stale>>
    /\ UNCHANGED hostVars

\* setTimeout(callback, w)
JsSetTimeout(w) ==
    /\ CanStep
    /\ pc = "sync"
    /\ op = "none"
    /\ op' = "timer"
    /\ wake' = w
    /\ jsSteps' = jsSteps + 1
    /\ UNCHANGED <<workerVars, timeVars, localVars, cpuVars, wdVars, allocVars,
                   terminating, loop, sink, delivered,
                   outerElapsed, refused, threw, looped, burned, stale>>
    /\ UNCHANGED hostVars

\* await new Promise(() => {}) on an op that never completes.
JsAwaitForever ==
    /\ CanStep
    /\ pc = "sync"
    /\ op = "none"
    /\ op' = "never"
    /\ jsSteps' = jsSteps + 1
    /\ UNCHANGED <<workerVars, timeVars, localVars, cpuVars, wdVars, allocVars,
                   terminating, loop, wake, sink, delivered,
                   outerElapsed, refused, threw, looped, burned, stale>>
    /\ UNCHANGED hostVars

\* The script raises an error with this text: out of the trigger call
\* (exec_task captures it) or out of a callback (run_event_loop returns it).
JsThrow(text) ==
    /\ InJs /\ ~loop
    /\ threw' = TRUE
    /\ IF pc = "sync"
       THEN /\ trigger_exception' = Some(text)
            /\ pc' = "drive"
            /\ waited' = 0
            /\ UNCHANGED result
       ELSE /\ result' = Some(text)
            /\ pc' = "exit"
            /\ UNCHANGED <<trigger_exception, waited>>
    /\ UNCHANGED <<limits, aborted, execs, reason, now, cpu, jsVars,
                   memory_limit_hit, was_aborted, cpu_limit_hit, wall_clock_hit,
                   outerElapsed, refused, looped, burned, stale, jsSteps, cpuVars, wdVars, allocVars>>
    /\ UNCHANGED hostVars

\* The trigger call, or the callback, returns.
JsReturn ==
    /\ InJs /\ ~loop
    /\ pc' = "drive"
    /\ waited' = IF pc = "sync" THEN 0 ELSE waited
    /\ UNCHANGED <<limits, aborted, execs, reason, now, cpu, jsVars, localVars, histVars,
                   cpuVars, wdVars, allocVars>>
    /\ UNCHANGED hostVars

\* Running JS takes a pending terminate_execution: the call returns None
\* (exec_task captures a message), a callback makes run_event_loop return Err.
JsTerminated ==
    /\ InJs
    /\ terminating
    /\ terminating' = FALSE
    /\ loop' = FALSE
    /\ IF pc = "sync"
       THEN /\ trigger_exception' = Some(TerminatedMsg)
            /\ pc' = "drive"
            /\ waited' = 0
            /\ UNCHANGED result
       ELSE /\ result' = Some(TerminatedMsg)
            /\ pc' = "exit"
            /\ UNCHANGED <<trigger_exception, waited>>
    /\ UNCHANGED <<limits, aborted, execs, reason, now, cpu, op, wake, sink, delivered,
                   memory_limit_hit, was_aborted, cpu_limit_hit, wall_clock_hit,
                   histVars, cpuVars, wdVars, allocVars>>
    /\ UNCHANGED hostVars

\* ---- the event-loop drive (run_event_loop, wrapped in tokio::time::timeout
\* ---- when max_wall_clock_time_ms > 0)
WakeDue == op = "timer" /\ wake = 0
OuterDue_Never == FALSE
OuterDue == limits.wall > 0 /\ waited >= limits.wall

\* The pending timer completes and the event loop runs its callback.
DriveWake ==
    /\ pc = "drive"
    /\ WakeDue
    /\ op' = "none"
    /\ pc' = "async"
    /\ UNCHANGED <<limits, aborted, execs, reason, timeVars, localVars, histVars,
                   cpuVars, wdVars, allocVars, terminating, loop, wake, sink, delivered>>
    /\ UNCHANGED hostVars

\* Nothing is pending: run_event_loop returns Ok.
DriveQuiesce ==
    /\ pc = "drive"
    /\ op = "none"
    /\ result' = None
    /\ pc' = "exit"
    /\ UNCHANGED <<limits, aborted, execs, reason, timeVars, jsVars, histVars,
                   cpuVars, wdVars, allocVars,
                   trigger_exception, memory_limit_hit, was_aborted,
                   cpu_limit_hit, wall_clock_hit>>
    /\ UNCHANGED hostVars

\* The outer timeout mapped to Ok instead of Err.
DriveOuterTimeout_ReturnsOk ==
    /\ pc = "drive"
    /\ op # "none"
    /\ OuterDue
    /\ terminating' = TRUE
    /\ result' = None
    /\ outerElapsed' = TRUE
    /\ pc' = "exit"
    /\ UNCHANGED <<limits, aborted, execs, reason, timeVars, cpuVars, wdVars, allocVars,
                   loop, op, wake, sink, delivered,
                   trigger_exception, memory_limit_hit, was_aborted,
                   cpu_limit_hit, wall_clock_hit, refused, threw, looped, burned, stale, jsSteps>>
    /\ UNCHANGED hostVars

\* Err(_elapsed): terminate_execution, Err("Wall-clock timeout exceeded").
DriveOuterTimeout ==
    /\ pc = "drive"
    /\ op # "none"
    /\ OuterDue
    /\ terminating' = TRUE
    /\ result' = Some(WallTimeoutMsg)
    /\ outerElapsed' = TRUE
    /\ pc' = "exit"
    /\ UNCHANGED <<limits, aborted, execs, reason, timeVars, cpuVars, wdVars, allocVars,
                   loop, op, wake, sink, delivered,
                   trigger_exception, memory_limit_hit, was_aborted,
                   cpu_limit_hit, wall_clock_hit, refused, threw, looped, burned, stale, jsSteps>>
    /\ UNCHANGED hostVars

\* The exec thread waits in the event loop: wall time passes.
Tick ==
    /\ pc = "drive"
    /\ op # "none"
    /\ ~WakeDue
    /\ ~OuterDue
    /\ op = "timer" \/ limits.wall > 0
    /\ now' = NowAfter(now)
    /\ waited' = NowAfter(waited)
    /\ wake' = WakeAfter(wake)
    /\ Charge(CpuAfterIdle(cpu))
    /\ UNCHANGED <<workerVars, localVars, histVars, wdVars, allocVars,
                   terminating, loop, op, sink, delivered,
                   nextId, registry, terminated, enforcer, sigpc, sigData>>
    /\ UNCHANGED hostVars

\* ---- exit: read the flags, decide, drop the guards
\* memory_limit_hit_flag.swap(false); aborted.load();
\* cpu_enforcer.as_ref().map(|e| e.was_terminated()).unwrap_or(false)
ReadFlags ==
    /\ pc = "exit"
    /\ memory_limit_hit' = memory_limit_hit_flag
    /\ memory_limit_hit_flag' = FALSE
    /\ was_aborted' = aborted
    /\ cpu_limit_hit' = IF enforcer = 0 THEN FALSE ELSE terminated[enforcer]
    /\ pc' = "decide"
    /\ UNCHANGED <<limits, aborted, execs, reason, timeVars, jsVars, histVars, cpuVars, wdVars,
                   max, count, live, lastPtr, calls,
                   trigger_exception, result, wall_clock_hit>>
    /\ UNCHANGED hostVars

\* The drop without the send.
SendCancellation_Skipped(thread_state) == FALSE

\* TimeoutGuard::drop, first half: if let Some(cancel_tx) = self.cancel_tx.take()
\* { cancel_tx.send(()) }: a message is queued iff the guard has a thread.
SendCancellation(thread_state) == thread_state # "none"

\* wall_guard.was_triggered(), then the chain of returns; leaving the function
\* drops wall_guard first: its drop sends the cancellation.
Decide ==
    /\ pc = "decide"
    /\ wall_clock_hit' = WasTriggered
    /\ reason' = ComputeReason(cpu_limit_hit, WasTriggered, result,
                               memory_limit_hit, was_aborted, trigger_exception)
    /\ cancelSent' = SendCancellation(wd)
    /\ pc' = "drop"
    /\ UNCHANGED <<limits, aborted, execs, timeVars, jsVars, histVars, cpuVars,
                   allocVars, wd, triggered,
                   trigger_exception, result, memory_limit_hit, was_aborted,
                   cpu_limit_hit>>
    /\ UNCHANGED hostVars

\* TimeoutGuard::drop joins the watchdog; CpuEnforcer::drop deletes the timer
\* and unregisters; exec has returned and its locals are gone.
ExecReturn ==
    /\ pc = "drop"
    /\ wd \in {"none", "exited"}
    /\ timerArmed' = FALSE
    /\ registry' = registry \ {enforcer}
    /\ pc' = "idle"
    /\ execs' = execs + 1
    /\ now' = 0 /\ cpu' = 0 /\ waited' = 0
    /\ trigger_exception' = None /\ result' = None
    /\ memory_limit_hit' = FALSE /\ was_aborted' = FALSE
    /\ cpu_limit_hit' = FALSE /\ wall_clock_hit' = FALSE
    /\ outerElapsed' = FALSE /\ refused' = FALSE /\ threw' = FALSE
    /\ looped' = FALSE /\ burned' = FALSE /\ stale' = FALSE /\ jsSteps' = 0
    /\ wd' = "none" /\ cancelSent' = FALSE /\ triggered' = FALSE
    /\ lastPtr' = "none"
    \* what exec_task or op_fetch_init put into the resource table stays there
    /\ UNCHANGED <<sink, delivered>>
    /\ UNCHANGED <<limits, aborted, reason, terminating, loop, op, wake,
                   max, count, live, memory_limit_hit_flag, calls,
                   nextId, terminated, enforcer, sigq, sigpc, sigData>>
    /\ UNCHANGED hostVars

\* ---------------------------------------------- host ops and their handles
MaxRid == 3          \* rids the resource table hands out

Rids == 1..MaxRid

\* What a rid holds: nothing, or a resource of one of the types the ops use.
ResourceTypes == {"FetchInit", "FetchTx", "FetchStreamTx", "ScheduledInit"}

NoOutcome == [op |-> "none", rid |-> 0, held |-> "absent", result |-> "none"]

\* resource_table.get::<T>(rid) / take::<T>(rid): Ok when the rid holds a T,
\* Err(ResourceError) when it holds nothing or a resource of another type.
HasResource(rid, type) == table[rid] = type

\* The op was called with rid; what the rid held, and how the call ended:
\* "ok", "error" (a ResourceError raised to the script) or "panic".
Returned(name, rid, res) ==
    [op |-> name, rid |-> rid, held |-> table[rid], result |-> res]

\* exec_task: resource_table.add(payload) for a fetch or a scheduled task.
OpsExecTask(type) ==
    /\ outcome.result # "panic"
    /\ next_rid <= MaxRid
    /\ table' = [table EXCEPT ![next_rid] = type]
    /\ next_rid' = next_rid + 1
    /\ outcome' = NoOutcome
    /\ UNCHANGED <<execVars, allocVars, streamVars, statusVars, sinkVars, enfVars>>

\* op_fetch_init: take::<FetchInit>(rid).unwrap(), then add FetchTx.
OpFetchInit(rid) ==
    /\ outcome.result # "panic"
    /\ IF HasResource(rid, "FetchInit")
       THEN /\ next_rid <= MaxRid
            /\ table' = [table EXCEPT ![rid] = "absent", ![next_rid] = "FetchTx"]
            /\ next_rid' = next_rid + 1
            /\ outcome' = Returned("fetch_init", rid, "ok")
       ELSE /\ outcome' = Returned("fetch_init", rid, "panic")
            /\ UNCHANGED <<table, next_rid>>
    /\ UNCHANGED <<execVars, allocVars, streamVars, statusVars, sinkVars, enfVars>>

\* One more HttpResponse was sent on the FetchTx that rid held.
SendOn(rid) == [sends EXCEPT ![rid] = @ + 1]

\* get instead of take: the FetchTx stays in the table.
OpFetchRespond_KeepsSink(rid) ==
    /\ outcome.result # "panic"
    /\ IF HasResource(rid, "FetchTx") /\ sends[rid] < MaxRid
       THEN /\ sends' = SendOn(rid)
            /\ outcome' = Returned("fetch_respond", rid, "ok")
       ELSE /\ outcome' = Returned("fetch_respond", rid, "error")
            /\ UNCHANGED sends
    /\ UNCHANGED <<execVars, allocVars, streamVars, statusVars, enfVars,
                   respond_args, rx, table, next_rid>>

\* op_fetch_respond: take::<FetchTx>(rid)?, then send.
OpFetchRespond(rid) ==
    /\ outcome.result # "panic"
    /\ IF HasResource(rid, "FetchTx")
       THEN /\ table' = [table EXCEPT ![rid] = "absent"]
            /\ sends' = SendOn(rid)
            /\ outcome' = Returned("fetch_respond", rid, "ok")
       ELSE /\ outcome' = Returned("fetch_respond", rid, "error")
            /\ UNCHANGED <<table, sends>>
    /\ UNCHANGED <<execVars, allocVars, streamVars, statusVars, enfVars,
                   respond_args, rx, next_rid>>

\* op_fetch_respond_stream_start: take::<FetchTx>(rid)?, send, add FetchStreamTx.
OpFetchRespondStreamStart(rid) ==
    /\ outcome.result # "panic"
    /\ IF HasResource(rid, "FetchTx")
       THEN /\ next_rid <= MaxRid
            /\ table' = [table EXCEPT ![rid] = "absent", ![next_rid] = "FetchStreamTx"]
            /\ next_rid' = next_rid + 1
            /\ sends' = SendOn(rid)
            /\ outcome' = Returned("fetch_respond_stream_start", rid, "ok")
       ELSE /\ outcome' = Returned("fetch_respond_stream_start", rid, "error")
            /\ UNCHANGED <<table, next_rid, sends>>
    /\ UNCHANGED <<execVars, allocVars, streamVars, statusVars, enfVars, respond_args, rx>>

\* op_fetch_respond_stream_chunk: get::<FetchStreamTx>(rid)?, clone, send.
OpFetchRespondStreamChunk(rid) ==
    /\ outcome.result # "panic"
    /\ outcome' = Returned("fetch_respond_stream_chunk", rid,
                           IF HasResource(rid, "FetchStreamTx") THEN "ok" ELSE "error")
    /\ UNCHANGED <<execVars, allocVars, streamVars, statusVars, sinkVars, enfVars, table, next_rid>>

\* op_fetch_respond_stream_end: take::<FetchStreamTx>(rid)?.
OpFetchRespondStreamEnd(rid) ==
    /\ outcome.result # "panic"
    /\ IF HasResource(rid, "FetchStreamTx")
       THEN /\ table' = [table EXCEPT ![rid] = "absent"]
            /\ outcome' = Returned("fetch_respond_stream_end", rid, "ok")
       ELSE /\ outcome' = Returned("fetch_respond_stream_end", rid, "error")
            /\ UNCHANGED table
    /\ UNCHANGED <<execVars, allocVars, streamVars, statusVars, sinkVars, enfVars, next_rid>>

\* op_scheduled_init: get::<ScheduledInit>(rid).unwrap(); the resource stays.
OpScheduledInit(rid) ==
    /\ outcome.result # "panic"
    /\ outcome' = Returned("scheduled_init", rid,
                           IF HasResource(rid, "ScheduledInit") THEN "ok" ELSE "panic")
    /\ UNCHANGED <<execVars, allocVars, streamVars, statusVars, sinkVars, enfVars, table, next_rid>>

\* op_scheduled_respond: take::<ScheduledInit>(rid), Err(err) => Err(err);
\* then res_tx.send(()).unwrap(), which panics when the host dropped its
\* receiver.
OpScheduledRespond(rid, receiverAlive) ==
    /\ outcome.result # "panic"
    /\ IF HasResource(rid, "ScheduledInit")
       THEN /\ table' = [table EXCEPT ![rid] = "absent"]
            /\ outcome' = Returned("scheduled_respond", rid,
                                   IF receiverAlive THEN "ok" ELSE "panic")
       ELSE /\ outcome' = Returned("scheduled_respond", rid, "error")
            /\ UNCHANGED table
    /\ UNCHANGED <<execVars, allocVars, streamVars, statusVars, sinkVars, enfVars, next_rid>>

\* ------------------------------------- CPU enforcers of several Workers
\* cpu_enforcement.rs with its global state, shared by every Worker of the
\* process: the id counter, the registry, the pending SIGALRMs and the one
\* signal-processing thread.  Each Worker runs on a thread of its own.
MaxWorkers == 2         \* Workers (threads, isolates) of the process
MaxEnforcerIds == 3     \* ids ENFORCER_COUNTER hands out

WorkerIds == 1..MaxWorkers
CounterIds == 1..MaxEnforcerIds

\* A Worker thread outside exec; the signal thread waiting for a signal.
ThreadIdle == [pc |-> "idle", id |-> 0, stopped |-> FALSE, cpu_limit_hit |-> FALSE]
HandlerWaiting == [pc |-> "wait", id |-> 0, isolate |-> 0, log |-> "none"]

\* ENFORCER_COUNTER.fetch_add(1); timer_create: on failure new returns None
\* and exec runs without an enforcer.
TimerCreate(w, ok) ==
    /\ thread[w].pc = "idle"
    /\ ENFORCER_COUNTER <= MaxEnforcerIds
    /\ ENFORCER_COUNTER' = ENFORCER_COUNTER + 1
    /\ made_for' = [made_for EXCEPT ![ENFORCER_COUNTER] = w]
    /\ thread' = [thread EXCEPT ![w] =
                    IF ok THEN [ThreadIdle EXCEPT !.pc = "created", !.id = ENFORCER_COUNTER]
                    ELSE [ThreadIdle EXCEPT !.pc = "running"]]
    /\ UNCHANGED <<nonEnfVars, ENFORCER_REGISTRY, terminated_flag, timer, sigalrm,
                   sigthread, isolate>>

\* The insert left out.
RegisterEnforcer_NoInsert(w) ==
    /\ thread[w].pc = "created"
    /\ terminated_flag' = [terminated_flag EXCEPT ![thread[w].id] = FALSE]
    /\ thread' = [thread EXCEPT ![w].pc = "registered"]
    /\ UNCHANGED <<nonEnfVars, ENFORCER_COUNTER, ENFORCER_REGISTRY, made_for, timer,
                   sigalrm, sigthread,
                   isolate>>

\* terminated = Arc::new(AtomicBool::new(false)); register_enforcer(id,
\* isolate_handle, terminated.clone())
RegisterEnforcer(w) ==
    /\ thread[w].pc = "created"
    /\ terminated_flag' = [terminated_flag EXCEPT ![thread[w].id] = FALSE]
    /\ ENFORCER_REGISTRY' = [ENFORCER_REGISTRY EXCEPT ![thread[w].id] = w]
    /\ thread' = [thread EXCEPT ![w].pc = "registered"]
    /\ UNCHANGED <<nonEnfVars, ENFORCER_COUNTER, made_for, timer, sigalrm, sigthread, isolate>>

\* timer_settime: on failure timer_delete, unregister_enforcer, return None.
TimerSettime(w, ok) ==
    /\ thread[w].pc = "registered"
    /\ IF ok
       THEN /\ timer' = [timer EXCEPT ![thread[w].id] = "armed"]
            /\ thread' = [thread EXCEPT ![w].pc = "running"]
            /\ UNCHANGED ENFORCER_REGISTRY
       ELSE /\ timer' = [timer EXCEPT ![thread[w].id] = "deleted"]
            /\ ENFORCER_REGISTRY' = [ENFORCER_REGISTRY EXCEPT ![thread[w].id] = 0]
            /\ thread' = [thread EXCEPT ![w] = [ThreadIdle EXCEPT !.pc = "running"]]
    /\ UNCHANGED <<nonEnfVars, ENFORCER_COUNTER, made_for, terminated_flag, sigalrm,
                   sigthread, isolate>>

\* The armed one-shot timer expires (its thread has used its CPU budget): the kernel queues
\* a SIGALRM whose value is the enforcer id.
TimerExpires(id) ==
    /\ timer[id] = "armed"
    /\ timer' = [timer EXCEPT ![id] = "fired"]
    /\ sigalrm' = Append(sigalrm, id)
    /\ UNCHANGED <<nonEnfVars, ENFORCER_COUNTER, ENFORCER_REGISTRY, made_for,
                   terminated_flag, thread,
                   sigthread, isolate>>

\* The lookup takes the entry of whichever enforcer is registered.
HandlerLookup_AnyEntry ==
    /\ sigthread.pc = "wait"
    /\ sigalrm # <<>>
    /\ sigalrm' = Tail(sigalrm)
    /\ \E id \in CounterIds :
          /\ ENFORCER_REGISTRY[id] # 0
          /\ sigthread' = [pc |-> "found", id |-> id,
                           isolate |-> ENFORCER_REGISTRY[id], log |-> "received"]
    /\ UNCHANGED <<nonEnfVars, ENFORCER_COUNTER, ENFORCER_REGISTRY, made_for,
                   terminated_flag, timer,
                   thread, isolate>>

\* An unknown id ends the loop.
HandlerLookup_UnknownEndsLoop ==
    /\ sigthread.pc = "wait"
    /\ sigalrm # <<>>
    /\ sigalrm' = Tail(sigalrm)
    /\ sigthread' =
          IF ENFORCER_REGISTRY[Head(sigalrm)] # 0
          THEN [pc |-> "found", id |-> Head(sigalrm),
                isolate |-> ENFORCER_REGISTRY[Head(sigalrm)], log |-> "received"]
          ELSE [pc |-> "ended", id |-> Head(sigalrm), isolate |-> 0, log |-> "unknown"]
    /\ UNCHANGED <<nonEnfVars, ENFORCER_COUNTER, ENFORCER_REGISTRY, made_for,
                   terminated_flag, timer, thread, isolate>>

\* signals.next(): the id of the signal; map.get(&enforcer_id).cloned() under
\* the lock; an unknown id is logged and the loop goes on.
HandlerLookup ==
    /\ sigthread.pc = "wait"
    /\ sigalrm # <<>>
    /\ sigalrm' = Tail(sigalrm)
    /\ sigthread' =
          IF ENFORCER_REGISTRY[Head(sigalrm)] # 0
          THEN [pc |-> "found", id |-> Head(sigalrm),
                isolate |-> ENFORCER_REGISTRY[Head(sigalrm)], log |-> "received"]
          ELSE [HandlerWaiting EXCEPT !.log = "unknown", !.id = Head(sigalrm)]
    /\ UNCHANGED <<nonEnfVars, ENFORCER_COUNTER, ENFORCER_REGISTRY, made_for,
                   terminated_flag, timer,
                   thread, isolate>>

\* terminated.store(true) on the clone of the entry's flag
HandlerStore ==
    /\ sigthread.pc = "found"
    /\ terminated_flag' = [terminated_flag EXCEPT ![sigthread.id] = TRUE]
    /\ sigthread' = [sigthread EXCEPT !.pc = "stored"]
    /\ UNCHANGED <<nonEnfVars, ENFORCER_COUNTER, ENFORCER_REGISTRY, made_for, timer,
                   sigalrm, thread,
                   isolate>>

\* isolate_handle.terminate_execution() on the clone of the entry's handle
HandlerTerminate ==
    /\ sigthread.pc = "stored"
    /\ isolate' = [isolate EXCEPT ![sigthread.isolate] =
                      [pending |-> TRUE, by |-> @.by \cup {sigthread.id}]]
    /\ sigthread' = [HandlerWaiting EXCEPT !.log = "terminated"]
    /\ UNCHANGED <<nonEnfVars, ENFORCER_COUNTER, ENFORCER_REGISTRY, made_for,
                   terminated_flag, timer,
                   sigalrm, thread>>

\* The script runs on the Worker's thread and takes the pending termination
\* of its isolate: the trigger call or the event-loop drive ends.
IsolateStops(w) ==
    /\ thread[w].pc = "running"
    /\ isolate[w].pending
    /\ isolate' = [isolate EXCEPT ![w].pending = FALSE]
    /\ thread' = [thread EXCEPT ![w].pc = "exit", ![w].stopped = TRUE]
    /\ UNCHANGED <<nonEnfVars, ENFORCER_COUNTER, ENFORCER_REGISTRY, made_for,
                   terminated_flag, timer,
                   sigalrm, sigthread>>

\* The event-loop drive returns with nothing having stopped the script.
ExecCompletes(w) ==
    /\ thread[w].pc = "running"
    /\ thread' = [thread EXCEPT ![w].pc = "exit"]
    /\ UNCHANGED <<nonEnfVars, ENFORCER_COUNTER, ENFORCER_REGISTRY, made_for,
                   terminated_flag, timer,
                   sigalrm, sigthread, isolate>>

\* cpu_enforcer.as_ref().map(|e| e.was_terminated()).unwrap_or(false)
ReadWasTerminated(w) ==
    /\ thread[w].pc = "exit"
    /\ thread' = [thread EXCEPT ![w].pc = "read",
                                ![w].cpu_limit_hit = IF thread[w].id = 0 THEN FALSE
                                                     ELSE terminated_flag[thread[w].id]]
    /\ UNCHANGED <<nonEnfVars, ENFORCER_COUNTER, ENFORCER_REGISTRY, made_for,
                   terminated_flag, timer,
                   sigalrm, sigthread, isolate>>

\* The entry left in the registry.
DropCpuEnforcer_KeepsEntry(w) ==
    /\ thread[w].pc = "read"
    /\ IF thread[w].id = 0
       THEN UNCHANGED timer
       ELSE timer' = [timer EXCEPT ![thread[w].id] = "deleted"]
    /\ thread' = [thread EXCEPT ![w] = ThreadIdle]
    /\ UNCHANGED <<nonEnfVars, ENFORCER_COUNTER, ENFORCER_REGISTRY, made_for,
                   terminated_flag, sigalrm,
                   sigthread, isolate>>

\* exec returns and drops its enforcer, if it has one: timer_delete,
\* unregister_enforcer.
DropCpuEnforcer(w) ==
    /\ thread[w].pc = "read"
    /\ IF thread[w].id = 0
       THEN UNCHANGED <<timer, ENFORCER_REGISTRY>>
       ELSE /\ timer' = [timer EXCEPT ![thread[w].id] = "deleted"]
            /\ ENFORCER_REGISTRY' = [ENFORCER_REGISTRY EXCEPT ![thread[w].id] = 0]
    /\ thread' = [thread EXCEPT ![w] = ThreadIdle]
    /\ UNCHANGED <<nonEnfVars, ENFORCER_COUNTER, made_for, terminated_flag, sigalrm,
                   sigthread, isolate>>

\* ------------------------------------------------------------ specification
\* Worker::new: nothing runs, no guard is armed, the allocator has vended
\* nothing, no stream exists.
WorkerAfterNew ==
    /\ aborted = FALSE
    /\ execs = 0
    /\ reason = NoReason
    /\ now = 0 /\ cpu = 0 /\ waited = 0
    /\ terminating = FALSE /\ loop = FALSE /\ op = "none" /\ wake = 0
    /\ delivered = 0
    /\ trigger_exception = None /\ result = None
    /\ memory_limit_hit = FALSE /\ was_aborted = FALSE
    /\ cpu_limit_hit = FALSE /\ wall_clock_hit = FALSE
    /\ outerElapsed = FALSE /\ refused = FALSE /\ threw = FALSE
    /\ looped = FALSE /\ burned = FALSE
    /\ stale = FALSE /\ jsSteps = 0
    /\ nextId = 1 /\ registry = {}
    /\ terminated = [i \in EnforcerIds |-> FALSE]
    /\ enforcer = 0 /\ timerArmed = FALSE
    /\ sigq = <<>> /\ sigpc = "wait" /\ sigData = 0
    /\ wd = "none" /\ cancelSent = FALSE /\ triggered = FALSE
    /\ max = limits.heap
    /\ count = 0 /\ live = <<>>
    /\ lastPtr = "none"
    /\ calls = [t \in AllocThreads |-> NoCall]
    /\ stream = "none" /\ permits = 0
    /\ chan = <<>> /\ waiters = <<>> /\ granted = <<>>
    /\ pushed = <<>> /\ received = <<>>
    /\ rxOpen = TRUE
    /\ table = [rid \in Rids |-> "absent"]
    /\ next_rid = 1
    /\ outcome = NoOutcome
    /\ served = <<>>
    /\ respond_args = <<>> /\ rx = <<>>
    /\ sends = [rid \in Rids |-> 0]
    /\ ENFORCER_COUNTER = 1
    /\ ENFORCER_REGISTRY = [id \in CounterIds |-> 0]
    /\ made_for = [id \in CounterIds |-> 0]
    /\ terminated_flag = [id \in CounterIds |-> FALSE]
    /\ timer = [id \in CounterIds |-> "none"]
    /\ sigalrm = <<>>
    /\ sigthread = HandlerWaiting
    /\ thread = [w \in WorkerIds |-> ThreadIdle]
    /\ isolate = [w \in WorkerIds |-> [pending |-> FALSE, by |-> {}]]

\* Worker::new is called: the allocator and its flag exist, the isolate is
\* created, nothing has run.
Init ==
    /\ limits \in [cpu : 0..MaxCpuMs, wall : {0, MaxWallMs}, heap : {MaxHeap}]
    /\ WorkerAfterNew
    /\ pc = "new"
    /\ sink = "none"
    /\ memory_limit_hit_flag = FALSE

\* What can go wrong in the bootstrap block: execute_script fails, its result
\* is not an object, the fetch or the scheduled trigger is not a function.
BootstrapFailures == {"bootstrap", "triggers", "fetch", "scheduled"}

\* The bootstrap block of Worker::new; each failure is mapped with map_err /
\* ok_or_else and returned with `?`.
NewBootstrap(failure) ==
    /\ pc = "new"
    /\ IF failure = "none"
       THEN pc' = "new_load" /\ UNCHANGED reason
       ELSE pc' = "failed" /\ reason' = InitializationError(<<failure>>)
    /\ UNCHANGED <<limits, aborted, execs, timeVars, jsVars, localVars, histVars,
                   cpuVars, wdVars, allocVars, hostVars>>

\* load_main_es_module_from_code(..).await.map_err(..)?
NewLoadMain(failure) ==
    /\ pc = "new_load"
    /\ IF failure = "none"
       THEN pc' = "new_eval" /\ UNCHANGED reason
       ELSE pc' = "failed" /\ reason' = Exception(<<failure>>)
    /\ UNCHANGED <<limits, aborted, execs, timeVars, jsVars, localVars, histVars,
                   cpuVars, wdVars, allocVars, hostVars>>

\* mod_evaluate, the initial run_event_loop(..).await.map_err(..)?, then
\* result.await.map_err(..)?; on success the Worker exists.  An allocation
\* the module made while it was evaluated may have been refused.
NewEvalMain(failure, refusal) ==
    /\ pc = "new_eval"
    /\ memory_limit_hit_flag' = refusal
    /\ IF failure = "none"
       THEN pc' = "idle" /\ UNCHANGED reason
       ELSE pc' = "failed" /\ reason' = Exception(<<failure>>)
    /\ UNCHANGED <<limits, aborted, execs, timeVars, jsVars, localVars, histVars,
                   cpuVars, wdVars, max, count, live, lastPtr, calls, hostVars>>

\* Timers shorter and longer than the wall-clock budget.
SleepTimes == {t \in {limits.wall - 1, limits.wall + 1} : t > 0}

Next ==
    \/ \E failure \in BootstrapFailures \cup {"none"} : NewBootstrap(failure)
    \/ \E failure \in {"load", "none"} : NewLoadMain(failure)
    \/ \E failure \in {"loop", "eval", "none"} : \E refusal \in BOOLEAN :
          NewEvalMain(failure, refusal)
    \/ Abort
    \/ \E task \in Tasks : ExecBegin(task)
    \/ JsFetchInit
    \/ \E meta \in ResponseMetas, body \in Bodies : JsRespond(meta, body)
    \/ \E n \in ExecSizes : JsAlloc(n)
    \/ JsBurn
    \/ JsLoop
    \/ \E w \in SleepTimes : JsSetTimeout(w)
    \/ JsAwaitForever
    \/ \E text \in Texts : JsThrow(text)
    \/ JsReturn
    \/ JsTerminated
    \/ DriveWake
    \/ DriveQuiesce
    \/ DriveOuterTimeout
    \/ Tick
    \/ ReadFlags
    \/ Decide
    \/ ExecReturn
    \/ SigLookup
    \/ SigMark
    \/ SigTerminate
    \/ WatchdogTimeout
    \/ WatchdogCancelled

Spec == Init /\ [][Next]_vars

\* Scheduling: the exec thread keeps running (JS in a loop consumes time, a
\* pending termination is taken by running JS, the event loop and the exit
\* path advance), and the watchdog and signal threads are eventually scheduled.
\* Nothing obliges the script to make a step or the host to call exec or abort.
ExecThread ==
    \/ (loop /\ JsBurn)
    \/ JsTerminated
    \/ DriveWake
    \/ DriveQuiesce
    \/ DriveOuterTimeout
    \/ Tick
    \/ ReadFlags
    \/ Decide
    \/ ExecReturn

WatchdogThread == WatchdogTimeout \/ WatchdogCancelled

SignalThread == SigLookup \/ SigMark \/ SigTerminate

FairSpec ==
    /\ Spec
    /\ WF_vars(loop /\ JsBurn)
    /\ WF_vars(JsTerminated)
    /\ WF_vars(DriveWake \/ DriveQuiesce \/ DriveOuterTimeout \/ Tick)
    /\ WF_vars(ReadFlags \/ Decide \/ ExecReturn)
    /\ WF_vars(WatchdogThread)
    /\ WF_vars(SignalThread)

\* ------------------------------------------------ allocator specification
\* The engine calls the allocator of a Worker whose isolate runs nothing else.
InitAlloc ==
    /\ limits \in [cpu : {0}, wall : {0}, heap : 0..AllocMaxHeap]
    /\ WorkerAfterNew
    /\ pc = "idle"
    /\ sink = "none"
    /\ memory_limit_hit_flag = FALSE

AllocSizes == 0..AllocMaxSize

VmAllocate(n) ==
    /\ Len(live) < AllocMaxLive
    /\ Allocate(n)
    /\ UNCHANGED <<execVars, hostVars>>

VmAllocateUninitialized(n) ==
    /\ Len(live) < AllocMaxLive
    /\ AllocateUninitialized(n)
    /\ UNCHANGED <<execVars, hostVars>>

VmFree(i) ==
    /\ Free(i)
    /\ UNCHANGED <<execVars, hostVars>>

VmReallocate(i, newlen) ==
    /\ Reallocate(i, newlen)
    /\ UNCHANGED <<execVars, hostVars>>

NextAlloc ==
    \/ \E n \in AllocSizes : VmAllocate(n)
    \/ \E n \in AllocSizes : VmAllocateUninitialized(n)
    \/ \E i \in DOMAIN live : VmFree(i)
    \/ \E i \in DOMAIN live : \E n \in AllocSizes : VmReallocate(i, n)

SpecAlloc == InitAlloc /\ [][NextAlloc]_vars

\* ----------------------------- allocator called from several engine threads
AllocOps == {"allocate", "allocate_uninitialized"}

ThreadAllocate(t, entry, n) == CallAllocate(t, entry, n) /\ UNCHANGED <<execVars, hostVars>>

ThreadReallocate(t, i, newlen) ==
    CallReallocate(t, i, newlen) /\ UNCHANGED <<execVars, hostVars>>

ThreadLoad(t) == CallLoad(t) /\ UNCHANGED <<execVars, hostVars>>

ThreadDecide(t) == CallDecide(t) /\ UNCHANGED <<execVars, hostVars>>

ThreadFree(t, i) == CallFree(t, i) /\ UNCHANGED <<execVars, hostVars>>

NextAllocThreads ==
    \/ \E t \in AllocThreads : \E entry \in AllocOps : \E n \in AllocSizes :
          ThreadAllocate(t, entry, n)
    \/ \E t \in AllocThreads : \E i \in DOMAIN live : \E n \in AllocSizes :
          ThreadReallocate(t, i, n)
    \/ \E t \in AllocThreads : ThreadLoad(t)
    \/ \E t \in AllocThreads : ThreadDecide(t)
    \/ \E t \in AllocThreads : \E i \in DOMAIN live : ThreadFree(t, i)

SpecAllocThreads == InitAlloc /\ [][NextAllocThreads]_vars

\* ------------------------------- allocator called by one thread at a time
\* The same steps, with every call begun only when no other call is in
\* flight: the calls of an isolate that allocates on its own thread.
Alone(t) == \A u \in AllocThreads \ {t} : ~InCall(u)

SerialAllocate(t, entry, n) == Alone(t) /\ ThreadAllocate(t, entry, n)

SerialReallocate(t, i, newlen) == Alone(t) /\ ThreadReallocate(t, i, newlen)

SerialLoad(t) == Alone(t) /\ ThreadLoad(t)

SerialDecide(t) == Alone(t) /\ ThreadDecide(t)

SerialFree(t, i) == Alone(t) /\ ThreadFree(t, i)

NextAllocSerial ==
    \/ \E t \in AllocThreads : \E entry \in AllocOps : \E n \in AllocSizes :
          SerialAllocate(t, entry, n)
    \/ \E t \in AllocThreads : \E i \in DOMAIN live : \E n \in AllocSizes :
          SerialReallocate(t, i, n)
    \/ \E t \in AllocThreads : SerialLoad(t)
    \/ \E t \in AllocThreads : SerialDecide(t)
    \/ \E t \in AllocThreads : \E i \in DOMAIN live : SerialFree(t, i)

SpecAllocSerial == InitAlloc /\ [][NextAllocSerial]_vars

\* ---------------------------------------------- streaming response body
\* const STREAM_BUFFER_SIZE: usize = 16
STREAM_BUFFER_SIZE == 16

\* IsPrefix(a, b): a is an initial part of b.
IsPrefix(a, b) == Len(a) <= Len(b) /\ \A i \in DOMAIN a : a[i] = b[i]

\* op_fetch_respond_stream_start with the send left out: the chunk handle is
\* handed to the script while the response is still unsent.
StreamStart_HandleFirst ==
    /\ pc = "sync"
    /\ sink = "tx"
    /\ stream' = "open"
    /\ permits' = STREAM_BUFFER_SIZE
    /\ UNCHANGED <<execVars, allocVars, opVars, statusVars, sinkVars, enfVars,
                   chan, waiters, granted, pushed, received, rxOpen>>

\* op_fetch_respond_stream_start: take FetchTx, create the bounded channel,
\* send the response carrying the receiver, add FetchStreamTx.
StreamStart ==
    /\ pc = "sync"
    /\ sink = "tx"
    /\ sink' = "sent"
    /\ delivered' = delivered + 1
    /\ stream' = "open"
    /\ permits' = STREAM_BUFFER_SIZE
    /\ UNCHANGED <<limits, aborted, pc, execs, reason, timeVars, localVars, histVars,
                   cpuVars, wdVars, allocVars, terminating, loop, op, wake,
                   chan, waiters, granted, pushed, received, rxOpen>>
    /\ UNCHANGED <<opVars, statusVars, sinkVars, enfVars>>

\* A chunk op over a channel without a bound: the chunk is enqueued at once.
StreamChunk_Unbounded ==
    /\ pc = "sync"
    /\ stream = "open"
    /\ Len(pushed) < MaxChunks
    /\ LET chunk == Len(pushed) + 1
       IN  /\ pushed' = Append(pushed, chunk)
           /\ IF ~rxOpen
              THEN UNCHANGED <<permits, chan, waiters>>
              ELSE /\ permits' = IF permits > 0 THEN permits - 1 ELSE 0
                   /\ chan' = Append(chan, chunk)
                   /\ UNCHANGED waiters
    /\ UNCHANGED <<execVars, allocVars, opVars, statusVars, sinkVars, enfVars,
                   stream, granted, received, rxOpen>>

\* op_fetch_respond_stream_chunk, polled when called: the handle is looked
\* up and the sender cloned; send() fails if the receiver is gone, takes a
\* free slot and enqueues the chunk, or joins the queue of suspended sends.
\* The chunk pushed is named by its position in the sequence pushed.
StreamChunk ==
    /\ pc = "sync"
    /\ stream = "open"
    /\ Len(pushed) < MaxChunks
    /\ LET chunk == Len(pushed) + 1
       IN  /\ pushed' = Append(pushed, chunk)
           /\ IF ~rxOpen
              THEN UNCHANGED <<permits, chan, waiters>>
              ELSE IF permits > 0
              THEN /\ permits' = permits - 1
                   /\ chan' = Append(chan, chunk)
                   /\ UNCHANGED waiters
              ELSE /\ waiters' = Append(waiters, chunk)
                   /\ UNCHANGED <<permits, chan>>
    /\ UNCHANGED <<execVars, allocVars, opVars, statusVars, sinkVars, enfVars, stream, granted, received, rxOpen>>

\* The event loop polls a woken send, in the order the sends were woken: it
\* holds a slot and enqueues its chunk.
StreamChunkResume ==
    /\ pc = "sync"
    /\ granted # <<>>
    /\ chan' = Append(chan, Head(granted))
    /\ granted' = Tail(granted)
    /\ UNCHANGED <<execVars, allocVars, opVars, statusVars, sinkVars, enfVars, stream, permits, waiters, pushed, received, rxOpen>>

\* op_fetch_respond_stream_end: take FetchStreamTx and drop it.
StreamEnd ==
    /\ pc = "sync"
    /\ stream = "open"
    /\ stream' = "ended"
    /\ UNCHANGED <<execVars, allocVars, opVars, statusVars, sinkVars, enfVars, permits, chan, waiters, granted, pushed,
                   received, rxOpen>>

\* The host consumer: rx.recv() takes the oldest chunk; the freed slot goes
\* to the first suspended send, which is woken, or back to the free slots.
ConsumerRecv ==
    /\ rxOpen
    /\ chan # <<>>
    /\ received' = Append(received, Head(chan))
    /\ chan' = Tail(chan)
    /\ IF waiters # <<>>
       THEN /\ granted' = Append(granted, Head(waiters))
            /\ waiters' = Tail(waiters)
            /\ UNCHANGED permits
       ELSE /\ permits' = permits + 1
            /\ UNCHANGED <<waiters, granted>>
    /\ UNCHANGED <<execVars, allocVars, opVars, statusVars, sinkVars, enfVars, stream, pushed, rxOpen>>

\* The host consumer drops the receiver: the channel closes, what it holds
\* is discarded, suspended sends fail (the op logs the error).
ConsumerDrop ==
    /\ rxOpen
    /\ stream # "none"
    /\ rxOpen' = FALSE
    /\ chan' = <<>>
    /\ waiters' = <<>>
    /\ granted' = <<>>
    /\ UNCHANGED <<execVars, allocVars, opVars, statusVars, sinkVars, enfVars, stream, permits, pushed, received>>

\* The script is in its fetch handler, past op_fetch_init.
InitStream ==
    /\ limits = [cpu |-> 0, wall |-> 0, heap |-> MaxHeap]
    /\ WorkerAfterNew
    /\ pc = "sync"
    /\ sink = "tx"
    /\ memory_limit_hit_flag = FALSE

NextStream ==
    \/ StreamStart
    \/ StreamChunk
    \/ StreamChunkResume
    \/ StreamEnd
    \/ ConsumerRecv
    \/ ConsumerDrop

SpecStream == InitStream /\ [][NextStream]_vars

\* ------------------------------------------------ host-op specification
\* The script calls the ops with any rid, in any order, on a Worker whose
\* host has handed it tasks.
InitOps ==
    /\ limits = [cpu |-> 0, wall |-> 0, heap |-> MaxHeap]
    /\ WorkerAfterNew
    /\ pc = "sync"
    /\ sink = "none"
    /\ memory_limit_hit_flag = FALSE

NextOps ==
    \/ \E type \in {"FetchInit", "ScheduledInit"} : OpsExecTask(type)
    \/ \E rid \in Rids : OpFetchInit(rid)
    \/ \E rid \in Rids : OpFetchRespond(rid)
    \/ \E rid \in Rids : OpFetchRespondStreamStart(rid)
    \/ \E rid \in Rids : OpFetchRespondStreamChunk(rid)
    \/ \E rid \in Rids : OpFetchRespondStreamEnd(rid)
    \/ \E rid \in Rids : OpScheduledInit(rid)
    \/ \E rid \in Rids : \E receiverAlive \in BOOLEAN : OpScheduledRespond(rid, receiverAlive)

SpecOps == InitOps /\ [][NextOps]_vars

\* ------------------------------------------------- reasons as HTTP statuses
MaxServed == 3       \* reasons the host maps in one behaviour

\* enum TerminationReason of termination.rs.
TerminationReasonKinds ==
    {"Success", "CpuTimeLimit", "WallClockTimeout", "MemoryLimit",
     "Exception", "InitializationError", "Terminated"}

\* The reasons Worker::new and Worker::exec construct.
ReturnedKinds ==
    {"Success", "CpuTimeLimit", "WallClockTimeout", "MemoryLimit",
     "Aborted", "Exception", "InitializationError"}

\* TerminationReason::http_status: one arm per variant of the enum; a reason
\* that is no variant of it has no status.
HttpStatus(kind) ==
    IF kind \notin TerminationReasonKinds THEN None
    ELSE Some(CASE kind = "Success" -> 200
                [] kind \in {"CpuTimeLimit", "MemoryLimit"} -> 429
                [] kind = "WallClockTimeout" -> 504
                [] kind \in {"Exception", "InitializationError"} -> 500
                [] kind = "Terminated" -> 503)

\* matches!(self, Self::Success)
IsSuccess(kind) == kind = "Success"

\* matches!(self, Self::CpuTimeLimit | Self::WallClockTimeout | Self::MemoryLimit)
IsLimitExceeded(kind) == kind \in {"CpuTimeLimit", "WallClockTimeout", "MemoryLimit"}

\* The host maps a reason it was given.
Serve(kind) ==
    /\ Len(served) < MaxServed
    /\ served' = Append(served, [kind |-> kind,
                                 status |-> HttpStatus(kind),
                                 is_success |-> IsSuccess(kind),
                                 is_limit_exceeded |-> IsLimitExceeded(kind)])
    /\ UNCHANGED <<execVars, allocVars, streamVars, opVars, sinkVars, enfVars>>

InitStatus ==
    /\ limits = [cpu |-> 0, wall |-> 0, heap |-> MaxHeap]
    /\ WorkerAfterNew
    /\ pc = "idle"
    /\ sink = "none"
    /\ memory_limit_hit_flag = FALSE

NextStatus == \E kind \in TerminationReasonKinds \cup ReturnedKinds : Serve(kind)

SpecStatus == InitStatus /\ [][NextStatus]_vars

\* ------------------------------------------------ enforcer specification
\* The process before any exec: the registry is empty, no timer exists, the
\* signal thread waits.
InitEnforcers ==
    /\ limits = [cpu |-> MaxCpuMs, wall |-> 0, heap |-> MaxHeap]
    /\ WorkerAfterNew
    /\ pc = "idle"
    /\ sink = "none"
    /\ memory_limit_hit_flag = FALSE

NextEnforcers ==
    \/ \E w \in WorkerIds, ok \in BOOLEAN : TimerCreate(w, ok)
    \/ \E w \in WorkerIds : RegisterEnforcer(w)
    \/ \E w \in WorkerIds, ok \in BOOLEAN : TimerSettime(w, ok)
    \/ \E id \in CounterIds : TimerExpires(id)
    \/ HandlerLookup
    \/ HandlerStore
    \/ HandlerTerminate
    \/ \E w \in WorkerIds : IsolateStops(w)
    \/ \E w \in WorkerIds : ExecCompletes(w)
    \/ \E w \in WorkerIds : ReadWasTerminated(w)
    \/ \E w \in WorkerIds : DropCpuEnforcer(w)

SpecEnforcers == InitEnforcers /\ [][NextEnforcers]_vars

\* ------------------------------------------------------------------ claims
\* An exec has computed the reason it returns and has not yet returned.
AtReturn == pc = "drop"

\* The reason the precedence of C1 selects from the conditions at exit.
C1_ClaimedReason ==
    IF cpu_limit_hit THEN Reason("CpuTimeLimit")
    ELSE IF wall_clock_hit \/ outerElapsed THEN Reason("WallClockTimeout")
    ELSE IF memory_limit_hit THEN Reason("MemoryLimit")
    ELSE IF was_aborted THEN Reason("Aborted")
    ELSE IF trigger_exception # None THEN Classify(trigger_exception[1])
    ELSE IF result # None THEN Classify(result[1])
    ELSE Reason("Success")

\* C1: the reason an exec returns follows the fixed precedence over the
\* conditions observed at exit: CpuTimeLimit if the enforcer's flag is set;
\* else WallClockTimeout if the guard triggered or the outer timed wait
\* elapsed; else MemoryLimit if the overflow flag was set; else Aborted if the
\* abort flag is set; else the classification of the trigger-call exception;
\* else the classification of the event-loop error; else Success.
C1_FixedPrecedence == AtReturn => reason = C1_ClaimedReason

\* The exec that refutes C1: no guard tripped and the outer wait did not
\* elapse, yet WallClockTimeout is returned for an event-loop error.
C1_TextTakenForTimeout ==
    /\ AtReturn
    /\ ~cpu_limit_hit /\ ~wall_clock_hit /\ ~outerElapsed
    /\ result = Some(WallTimeoutMsg)
    /\ reason = Reason("WallClockTimeout")

\* C2: every exec has exactly one terminal outcome: a response delivered on
\* the task's sink, or a reason other than Success; never both, never neither.
C2_ExactlyOneOutcome == AtReturn => ((delivered = 1) <=> (reason = Reason("Success")))

\* Both outcomes: the script responded and the exec reports a termination.
C2_Both == AtReturn /\ delivered = 1 /\ reason = Reason("WallClockTimeout")

\* C3: on an aborted Worker exec returns Aborted without touching the isolate:
\* no CPU enforcer and no watchdog is armed, nothing goes into the resource
\* table, the trigger function is not called, the event loop is not driven.
C3_AbortedExecTouchesNothing ==
    [][(pc = "idle" /\ aborted) =>
          /\ pc' = "idle"
          /\ (execs' # execs =>
                /\ reason' = Reason("Aborted")
                /\ UNCHANGED <<timeVars, jsVars, localVars, histVars, cpuVars,
                               wdVars, allocVars, aborted, limits>>)]_vars

C3_ReturnedAborted ==
    /\ pc = "idle" /\ aborted /\ execs = 1
    /\ reason = Reason("Aborted")
    /\ sink = "none" /\ enforcer = 0 /\ wd = "none"

\* The script is in an infinite loop inside the trigger call, the CPU limit
\* is disabled, nothing is queued in the event loop, and the exec began on a
\* Worker carrying nothing over from an earlier exec.
C4_SyncLoop ==
    /\ pc = "sync" /\ loop
    /\ limits.cpu = 0 /\ limits.wall > 0
    /\ op = "none" /\ ~stale

C4_Returned ==
    /\ AtReturn
    /\ reason = Reason("WallClockTimeout")
    /\ wall_clock_hit
    /\ looped

C5_Pending ==
    /\ pc = "drive"
    /\ limits.wall > 0
    /\ \/ op = "never"
       \/ op = "timer" /\ wake > limits.wall - waited

\* C5: an exec whose event loop could not quiesce, so that the outer timed
\* wait elapsed, returns WallClockTimeout.
C5_ElapsedReturnsWallClockTimeout ==
    (AtReturn /\ outerElapsed) => reason = Reason("WallClockTimeout")

C5_ReturnedAfterElapse ==
    /\ AtReturn
    /\ outerElapsed
    /\ terminating
    /\ IF cpu_limit_hit
       THEN reason = Reason("CpuTimeLimit")
       ELSE reason = Reason("WallClockTimeout")

\* C5 (amended): with max_wall_clock_time_ms > 0, an exec whose event loop
\* cannot quiesce because an async op is still pending eventually returns: the
\* outer timed wait elapses, terminate_execution is called, and the reason is
\* WallClockTimeout, or CpuTimeLimit if the CPU enforcer's flag is set by then.
C5_PendingOpIsBounded == C5_Pending ~> C5_ReturnedAfterElapse

C5_ElapsedWallClockTimeout ==
    /\ C5_ReturnedAfterElapse
    /\ reason = Reason("WallClockTimeout")
    /\ op # "none"

\* Both limits are enabled, C < W, and the script only burns CPU: its one
\* operation is the loop.
C6_OnlyBurns ==
    /\ 0 < limits.cpu /\ limits.cpu < limits.wall
    /\ looped /\ jsSteps = 1
    /\ ~stale

\* C6: with 0 < C < W an exec of a script that only burns CPU returns
\* CpuTimeLimit, never WallClockTimeout, whatever the interleaving of the
\* signal thread, the watchdog and the exec thread.
C6_CpuBoundReturnsCpuTimeLimit ==
    (AtReturn /\ C6_OnlyBurns) => reason = Reason("CpuTimeLimit")

\* The watchdog stopped the script before the signal thread stored the flag.
C6_WallClockReported ==
    /\ AtReturn /\ C6_OnlyBurns
    /\ reason = Reason("WallClockTimeout")

\* The script only slept, for longer than C and less than W, then responded.
C7_OnlySlept ==
    /\ 0 < limits.cpu /\ limits.cpu < now /\ now < limits.wall
    /\ ~burned /\ ~looped /\ ~threw /\ ~refused /\ ~stale
    /\ sink = "sent"

\* C7: time spent suspended is not charged to the CPU budget: the enforcer of
\* an exec that only slept for S, C < S < W, and then responded never fires;
\* exec returns Success and the response is delivered.
C7_SleepIsNotCharged ==
    (AtReturn /\ C7_OnlySlept) =>
        /\ reason = Reason("Success")
        /\ delivered = 1
        /\ ~cpu_limit_hit
        /\ timerArmed
        /\ ~terminated[enforcer]
        /\ \A i \in DOMAIN sigq : sigq[i] # enforcer

C7_SleptAndResponded == AtReturn /\ C7_OnlySlept /\ reason = Reason("Success")

\* C8: when the allocator refuses an allocation during an exec it returns
\* null and sets the memory-limit-hit flag, and the exec returns MemoryLimit
\* unless a CPU or wall-clock trip takes precedence.
C8_RefusalReturnsMemoryLimit ==
    /\ (refused /\ pc \in {"sync", "async", "drive", "exit"}) => memory_limit_hit_flag
    /\ (AtReturn /\ refused) =>
          \/ reason = Reason("MemoryLimit")
          \/ cpu_limit_hit
          \/ wall_clock_hit
          \/ outerElapsed

\* A refusal, no trip, and a reason other than MemoryLimit.
C8_RefusedNotReported ==
    /\ AtReturn /\ refused /\ memory_limit_hit
    /\ ~cpu_limit_hit /\ ~wall_clock_hit /\ ~outerElapsed
    /\ reason = Reason("WallClockTimeout")

\* C9: after any sequence of allocate, allocate_uninitialized, reallocate and
\* free calls, refused ones included, the allocator's counter equals the sum
\* of the sizes of the blocks it vended that have not been freed.
C9_CounterIsLiveSum == count = SumSeq(live)

\* Blocks are alive, one was vended by a reallocation or an allocation, and
\* the last call was refused.
C9_AfterRefusal ==
    /\ lastPtr = "null"
    /\ memory_limit_hit_flag
    /\ Len(live) >= 2
    /\ count = SumSeq(live)
    /\ count > 0

\* C10: the consumer receives the chunks pushed on one chunk handle in the
\* order they were pushed, none lost, none duplicated, none reordered, also
\* when pushes suspend on backpressure: what it has received is at any time
\* the initial part of what was pushed.
C10_ChunksInPushOrder == IsPrefix(received, pushed)

\* The consumer received a chunk ahead of one pushed before it.
C10_Overtaken ==
    /\ rxOpen
    /\ \E i \in DOMAIN received : received[i] > i

\* C11: in a streaming response the HttpResponse with status and headers is
\* sent on the ResponseSink before the chunk handle is handed to the script:
\* whenever the chunk handle exists, or a chunk was pushed, enqueued or
\* received, the response has been sent, once.
C11_ResponseBeforeChunks ==
    (stream # "none" \/ pushed # <<>> \/ chan # <<>> \/ received # <<>>)
        => (sink = "sent" /\ delivered = 1)

\* Chunks were pushed, one is in the channel and one was received.
C11_ChunksAfterResponse ==
    /\ stream = "open" /\ sink = "sent"
    /\ chan # <<>> /\ received # <<>>

\* C12: exec never fails in any way other than returning a value: for every
\* task it can be given, a Task whose payload was already taken included, and
\* every script behaviour, it returns and never panics.
C12_ExecReturnsAValue == pc # "panic"

\* exec was given a task, did not return and never will.
C12_Panicked == pc = "panic" /\ execs = 0 /\ reason = NoReason

\* The op was called with a handle that is absent from the table, already
\* consumed, or of another type than the op takes.
C13_BadHandle ==
    \/ outcome.op = "fetch_init" /\ outcome.held # "FetchInit"
    \/ outcome.op \in {"fetch_respond", "fetch_respond_stream_start"}
          /\ outcome.held # "FetchTx"
    \/ outcome.op \in {"fetch_respond_stream_chunk", "fetch_respond_stream_end"}
          /\ outcome.held # "FetchStreamTx"
    \/ outcome.op \in {"scheduled_init", "scheduled_respond"}
          /\ outcome.held # "ScheduledInit"

\* C13: every host op called with a handle that is absent from the resource
\* table, already consumed, or of the wrong type returns a resource error to
\* the script and never panics.
C13_BadHandleIsAnError == C13_BadHandle => outcome.result = "error"

\* A second fetch_init on the handle the first one consumed: a panic.
C13_SecondFetchInitPanics ==
    /\ outcome.op = "fetch_init" /\ outcome.held = "absent"
    /\ outcome.result = "panic"
    /\ \E rid \in Rids : table[rid] = "FetchTx"

\* C14: Worker construction reports every failure as InitializationError: a
\* bootstrap failure, a missing fetch or scheduled trigger, a failure to load
\* the main module, an error from the initial event-loop drain and a
\* module-evaluation error all yield InitializationError(detail).
C14_FailureIsInitializationError ==
    pc = "failed" => reason.kind = "InitializationError"

\* The main module failed to load, or to evaluate, and Exception is returned.
C14_FailedWithException ==
    /\ pc = "failed"
    /\ reason.kind = "Exception"
    /\ reason.detail \in {<<"load">>, <<"loop">>, <<"eval">>}

\* The status C15 gives each reason.
C15_ClaimedStatus(kind) ==
    CASE kind = "Success" -> 200
      [] kind \in {"CpuTimeLimit", "MemoryLimit"} -> 429
      [] kind = "WallClockTimeout" -> 504
      [] kind \in {"Exception", "InitializationError"} -> 500
      [] kind \in {"Aborted", "Terminated"} -> 503

\* C15: http_status is total over the termination reasons with these values:
\* Success 200, CpuTimeLimit and MemoryLimit 429, WallClockTimeout 504,
\* Exception and InitializationError 500, Aborted and Terminated 503;
\* is_success holds exactly when the status is 200, is_limit_exceeded exactly
\* when it is 429 or 504.
C15_StatusOfEveryReason ==
    \A i \in DOMAIN served :
        /\ served[i].status = Some(C15_ClaimedStatus(served[i].kind))
        /\ served[i].is_success <=> served[i].status = Some(200)
        /\ served[i].is_limit_exceeded <=> served[i].status \in {Some(429), Some(504)}

\* Aborted, which exec returns, has no status.
C15_AbortedHasNoStatus ==
    \E i \in DOMAIN served : served[i].kind = "Aborted" /\ served[i].status = None

\* C16: a wall-clock budget of 0 disables wall-clock enforcement: no watchdog
\* thread is spawned, the event-loop drive is not wrapped in a timed wait, and
\* exec never returns WallClockTimeout, whatever the script does, an error of
\* any text included.
C16_ZeroDisablesWallClock ==
    limits.wall = 0 =>
        /\ wd = "none"
        /\ ~triggered
        /\ ~outerElapsed
        /\ AtReturn => reason # Reason("WallClockTimeout")

\* No budget, no watchdog, no timed wait, and WallClockTimeout is returned.
C16_TimeoutWithoutBudget ==
    /\ AtReturn
    /\ limits.wall = 0
    /\ wd = "none" /\ ~outerElapsed
    /\ reason = Reason("WallClockTimeout")

\* C18: exec returns Success only after the event-loop drive has returned
\* without error: the step that makes Success the reason is taken past the
\* drive, with the drive's result Ok, the outer timed wait not elapsed and
\* nothing pending in the event loop.
C18_SuccessOnlyAfterQuiescence ==
    [][(reason' = Reason("Success") /\ reason # Reason("Success")) =>
          /\ pc = "decide"
          /\ result = None
          /\ ~outerElapsed
          /\ op = "none"]_vars

\* Success after the event loop ran a timer callback and quiesced.
C18_SuccessAfterCallback ==
    /\ AtReturn
    /\ reason = Reason("Success")
    /\ now > 0 /\ waited > 0
    /\ op = "none" /\ result = None

\* The enforcer the signal thread holds the clones of (flag, isolate handle)
\* has been dropped: its id has left the registry.
C19_HoldsDroppedEnforcer == sigpc \in {"found", "marked"} /\ sigData \notin registry

\* C19: once the drop of a CpuEnforcer has returned, the signal thread never
\* sets that enforcer's terminated flag and never calls terminate_execution
\* on its behalf, even when its registry entry had been looked up before the
\* drop.
C19_DropDisarms ==
    [][C19_HoldsDroppedEnforcer =>
          /\ terminated' = terminated
          /\ ~(sigpc = "marked" /\ sigpc' = "wait")]_vars

\* The watchdog thread leaves recv_timeout: its one step.
C20_WatchdogExits == wd = "waiting" /\ wd' # "waiting"

C20_CancelledFirst ==
    /\ limits.wall > 0
    /\ now < limits.wall
    /\ wd = "exited"
    /\ cancelSent
    /\ ~triggered /\ ~terminating

\* The bytes of an optional buffer, and of a ResponseBody.
C21_BytesPassed(body) == IF body = None THEN <<>> ELSE body[1]

\* At exit exec finds no limit tripped, no abort and no exception.
C21_NothingWentWrong ==
    /\ ~cpu_limit_hit /\ ~WasTriggered /\ ~TokioTimeoutHit(result)
    /\ ~memory_limit_hit /\ ~was_aborted
    /\ trigger_exception = None /\ result = None

\* C21: when the script responded with a buffered response and exec finds no
\* limit, abort or exception, exec returns Ok and the host's receiver has
\* obtained exactly one HttpResponse, with the status, the headers and the
\* body bytes passed to op_fetch_respond (no bytes for a missing or an empty
\* buffer).
C21_BufferedResponseArrives ==
    (AtReturn /\ sink = "sent" /\ C21_NothingWentWrong) =>
        /\ reason = Reason("Success")
        /\ Len(respond_args) = 1
        /\ Len(rx) = 1
        /\ rx[1].status = respond_args[1].meta.status
        /\ rx[1].headers = respond_args[1].meta.headers
        /\ rx[1].body.kind \in {"None", "Bytes"}
        /\ rx[1].body.bytes = C21_BytesPassed(respond_args[1].body)

\* exec returns Ok after respondWith(new Response(bytes, {status: 404,
\* headers})): the receiver holds that response.
C21_ResponseWithBody ==
    /\ AtReturn /\ sink = "sent" /\ C21_NothingWentWrong
    /\ reason = Reason("Success")
    /\ rx = <<[status |-> 404, headers |-> <<<<"k", "v">>>>,
               body |-> ResponseBodyBytes(<<"b">>)]>>

\* exec returns Ok after a response built from a buffer of no bytes.
C21_ResponseWithEmptyBody ==
    /\ AtReturn /\ sink = "sent" /\ C21_NothingWentWrong
    /\ reason = Reason("Success")
    /\ respond_args[1].body = Some(<<>>)
    /\ rx[1].body = ResponseBodyBytes(<<>>)

\* The signal thread stores the flag of an entry before it terminates the
\* entry's isolate.
C22_FlagBeforeTerminate ==
    [][\A w \in WorkerIds :
          isolate'[w].by # isolate[w].by =>
              /\ sigthread.isolate = w
              /\ terminated_flag[sigthread.id]]_vars

\* C22: an exec whose script was stopped by a terminate_execution of the
\* signal thread reads was_terminated = true when it computes its reason.
C22_StoppedExecReadsFlag ==
    \A w \in WorkerIds :
        (thread[w].pc = "read" /\ thread[w].stopped) => thread[w].cpu_limit_hit

\* An exec holding an enforcer was stopped by the termination requested for
\* an earlier enforcer of the same Worker, and read its own flag: false.
C22_StoppedWithoutFlag ==
    \E w \in WorkerIds :
        /\ thread[w].pc = "read" /\ thread[w].stopped
        /\ thread[w].id # 0
        /\ ~thread[w].cpu_limit_hit
        /\ isolate[w].by # {} /\ thread[w].id \notin isolate[w].by

\* op_fetch_respond or op_fetch_respond_stream_start was just called.
C23_RespondCalled ==
    outcome'.op \in {"fetch_respond", "fetch_respond_stream_start"}

\* C23: at most one HttpResponse is sent on a sink.  A response is sent only
\* by a respond call that finds the FetchTx under its rid, takes it out of
\* the table and returns Ok; a respond call naming a rid that holds no FetchTx
\* (as every call after the first does, the rid staying empty) returns a
\* resource error and sends nothing.
C23_AtMostOneResponse ==
    [][/\ \A rid \in Rids :
            /\ sends'[rid] <= 1
            /\ sends'[rid] = 1 => table'[rid] = "absent"
            /\ sends'[rid] # sends[rid] =>
                  /\ C23_RespondCalled
                  /\ outcome'.rid = rid /\ outcome'.result = "ok"
                  /\ table[rid] = "FetchTx" /\ table'[rid] = "absent"
       /\ (C23_RespondCalled /\ outcome'.held # "FetchTx") =>
            /\ outcome'.result = "error"
            /\ sends' = sends]_vars

\* A second respond call on a handle whose sink was used: a resource error,
\* one response sent.
C23_SecondRespondFails ==
    /\ outcome.op \in {"fetch_respond", "fetch_respond_stream_start"}
    /\ outcome.rid \in Rids
    /\ outcome.result = "error"
    /\ sends[outcome.rid] = 1

\* exec has returned to the host.
C24_Returned == pc = "idle" /\ execs > 0

\* Neither the payload nor the FetchTx of the task is in the resource table:
\* the sink went with the task when exec returned.
C24_SinkDropped == sink = "none"

\* C24: when exec has returned a reason other than Success and no response
\* was sent, the task's ResponseSink has been dropped, so that the host's
\* receiver resolves.
C24_SinkDroppedOnFailure ==
    (C24_Returned /\ reason # Reason("Success") /\ delivered = 0) => C24_SinkDropped

\* exec returned WallClockTimeout; the script had called fetch_init and never
\* responded: the FetchTx is still in the resource table of the live Worker.
C24_SinkKeptAfterFailure ==
    /\ C24_Returned
    /\ reason = Reason("WallClockTimeout")
    /\ delivered = 0
    /\ sink = "tx"

\* The same before fetch_init: the FetchInit payload is still in the table.
C24_PayloadKeptAfterFailure ==
    /\ C24_Returned
    /\ reason # Reason("Success")
    /\ delivered = 0
    /\ sink = "task"

\* The enforcer with this id is alive: CpuEnforcer::new has inserted it and
\* its owner has not dropped it (nor given it up because arming failed).
C25_Alive(id) ==
    \E w \in WorkerIds :
        thread[w].id = id /\ thread[w].pc \in {"registered", "running", "exit", "read"}

\* C25: the registry holds an entry for an id exactly while that enforcer is
\* alive, and the entry names the isolate of the Worker that holds it; ids of
\* enforcers dropped, given up or never constructed have no entry.
C25_RegistryIsTheLiveEnforcers ==
    \A id \in CounterIds :
        /\ ENFORCER_REGISTRY[id] # 0 <=> C25_Alive(id)
        /\ ENFORCER_REGISTRY[id] # 0 => thread[ENFORCER_REGISTRY[id]].id = id

\* One enforcer was dropped, the arming of another failed, a third is alive:
\* only the third has an entry.
C25_OneAliveAfterDropAndFailure ==
    \E a, b, c \in CounterIds :
        /\ timer[a] = "deleted" /\ terminated_flag[a]
        /\ timer[b] = "deleted" /\ ~terminated_flag[b] /\ made_for[b] # 0
        /\ timer[c] = "armed"
        /\ ENFORCER_REGISTRY[a] = 0 /\ ENFORCER_REGISTRY[b] = 0
        /\ ENFORCER_REGISTRY[c] # 0

\* The signal thread takes a signal off the queue.
C26_Lookup == sigalrm # <<>> /\ sigalrm' = Tail(sigalrm)

\* Some Worker thread holds the enforcer id (in CpuEnforcer::new or later).
C26_Held(id) == \E w \in WorkerIds : thread[w].id = id

\* C26: a timer is armed only for an id that is in the registry, a signal
\* carrying the id of an enforcer not yet dropped finds its entry, and a
\* lookup fails only for an id whose enforcer has been deregistered.
C26_SignalFindsLiveEnforcer ==
    [][/\ \A id \in CounterIds :
            timer'[id] \in {"armed", "fired"} => ENFORCER_REGISTRY'[id] # 0
       /\ \A i \in DOMAIN sigalrm' :
            (\E w \in WorkerIds : thread'[w].id = sigalrm'[i]) =>
                ENFORCER_REGISTRY'[sigalrm'[i]] # 0
       /\ (C26_Lookup /\ sigthread'.pc = "wait") =>
            /\ ~C26_Held(Head(sigalrm))
            /\ timer[Head(sigalrm)] = "deleted"]_vars

\* A lookup failed: for the signal of an enforcer dropped before the signal
\* was taken.
C26_LookupFailedAfterDrop ==
    /\ sigthread.log = "unknown"
    /\ sigthread.id \in CounterIds
    /\ timer[sigthread.id] = "deleted"
    /\ ENFORCER_REGISTRY[sigthread.id] = 0

\* C27: a signal whose id is not in the registry is ignored: no flag is set,
\* no isolate is terminated, the registry is unchanged, and the signal thread
\* waits for the next signal.
C27_UnknownSignalIgnored ==
    [][(C26_Lookup /\ ENFORCER_REGISTRY[Head(sigalrm)] = 0) =>
          /\ terminated_flag' = terminated_flag
          /\ isolate' = isolate
          /\ ENFORCER_REGISTRY' = ENFORCER_REGISTRY
          /\ sigthread'.pc = "wait"]_vars

\* An unknown signal was ignored while another signal is waiting and its
\* enforcer is alive.
C27_IgnoredWithSignalsWaiting ==
    /\ sigthread.pc = "wait" /\ sigthread.log = "unknown"
    /\ sigalrm # <<>>
    /\ ENFORCER_REGISTRY[Head(sigalrm)] # 0

\* C28: a signal carrying id X makes the signal thread take the entry of X,
\* set only the flag registered under X and terminate only the isolate
\* registered under X; every isolate is terminated only for ids made for it,
\* a signal carries the id of the timer that expired, and no two Worker
\* threads hold the same id.
C28_NoCrossTalk ==
    [][/\ (C26_Lookup /\ sigthread'.pc = "found") =>
            /\ sigthread'.id = Head(sigalrm)
            /\ sigthread'.isolate = made_for[Head(sigalrm)]
       /\ \A id \in CounterIds :
            terminated_flag'[id] # terminated_flag[id] => sigthread.id = id
       /\ \A w \in WorkerIds :
            /\ isolate'[w].by # isolate[w].by =>
                  /\ sigthread.isolate = w
                  /\ isolate'[w].by = isolate[w].by \cup {sigthread.id}
            /\ \A id \in isolate'[w].by : made_for[id] = w
       /\ \A i \in DOMAIN sigalrm' : timer'[sigalrm'[i]] \in {"fired", "deleted"}
       /\ \A v, w \in WorkerIds :
            (v # w /\ thread'[v].id # 0) => thread'[v].id # thread'[w].id]_vars

\* Two Workers run at once, each with its enforcer; the timer of one expired
\* and only that one's flag is set and isolate terminated.
C28_OneOfTwoTerminated ==
    \E v, w \in WorkerIds :
        /\ v # w
        /\ thread[v].pc = "running" /\ thread[w].pc = "running"
        /\ thread[v].id # 0 /\ thread[w].id # 0
        /\ terminated_flag[thread[v].id] /\ isolate[v].by = {thread[v].id}
        /\ ~terminated_flag[thread[w].id] /\ isolate[w].by = {}

\* The guard is being dropped: the cancellation was sent (if there is a
\* watchdog thread) and the join has not returned yet.
C29_Dropping == pc = "drop"

\* C29: dropping a TimeoutGuard completes: the drop, once begun, returns;
\* while it joins, a watchdog still waiting has the cancellation in its
\* channel (the sender is gone only after the send, so the wait ends by Ok or
\* by Timeout, never by a disconnect); and once the drop has returned there is
\* no watchdog thread left, so terminate_execution is not called any more.
C29_DropCompletes ==
    /\ C29_Dropping ~> pc = "idle"
    /\ [](C29_Dropping /\ wd = "waiting" => cancelSent)
    /\ [](pc = "idle" => wd = "none")
    /\ [][pc = "idle" => ~WatchdogTimeout]_vars

\* The drop has returned after joining a watchdog that had been cancelled
\* while it waited.
C29_JoinedCancelledWatchdog ==
    /\ pc = "idle" /\ execs > 0
    /\ limits.wall > 0
    /\ wd = "none"
    /\ reason = Reason("Success")
    /\ ~terminating

\* What the call of allocate or allocate_uninitialized with size n must do,
\* stated over the integers: vend a block and add n when the total stays
\* within the maximum, else return null and leave the counter alone.
C30_Decided(n) ==
    IF count + n <= max
    THEN lastPtr' = "block" /\ count' = count + n /\ live' = Append(live, n)
    ELSE lastPtr' = "null" /\ count' = count /\ live' = live

\* C30: an allocation request is accepted exactly when the running total plus
\* the requested size does not exceed the maximum, a request that brings the
\* total exactly to the maximum included; a refused allocate or
\* allocate_uninitialized returns null and leaves the counter at the value it
\* had before the call.
C30_AcceptedIffWithinMax ==
    [][\A n \in AllocSizes :
         (VmAllocate(n) \/ VmAllocateUninitialized(n)) => C30_Decided(n)]_vars

\* After a refusal, a later request was accepted that brought the total
\* exactly to the maximum.
C30_FilledToMaxAfterRefusal ==
    /\ lastPtr = "block"
    /\ memory_limit_hit_flag
    /\ max > 0
    /\ count = max
    /\ Len(live) >= 2
    /\ \A i \in DOMAIN live : live[i] > 0

\* What reallocate of block i to newlen must do, stated over the integers.
C31_Decided(i, newlen) ==
    IF count + newlen - live[i] <= max
    THEN /\ lastPtr' = "block"
         /\ count' = count + newlen - live[i]
         /\ live' = [live EXCEPT ![i] = newlen]
    ELSE /\ lastPtr' = "null"
         /\ count' = count
         /\ live' = live
         /\ count' = SumSeq(live')

\* C31: reallocate from oldlen to newlen changes the counter by newlen minus
\* oldlen when it succeeds; when the new total would exceed the maximum it
\* returns null, restores the counter to its value before the call, and
\* leaves the old block live and still counted.
C31_ReallocateAppliesOrRollsBack ==
    [][\A i \in DOMAIN live : \A newlen \in AllocSizes :
         VmReallocate(i, newlen) => C31_Decided(i, newlen)]_vars

\* As many blocks are alive as the engine holds at once, so the call refused
\* last was a reallocate; its block is still there and counted.
C31_ReallocateRefused ==
    /\ lastPtr = "null"
    /\ Len(live) = AllocMaxLive
    /\ count = SumSeq(live)
    /\ count > 0

\* The exec at its return reports MemoryLimit because the flag it swapped out
\* was set.
C32_MemoryLimitFromFlag ==
    /\ AtReturn
    /\ memory_limit_hit
    /\ reason = Reason("MemoryLimit")

\* C32: exec returns MemoryLimit on account of the allocator's overflow flag
\* only if an allocation was refused during that same exec; a refusal during
\* Worker::new or an earlier exec is never attributed to a later exec.
C32_RefusalOfThisExec == C32_MemoryLimitFromFlag => refused

\* The module's evaluation in Worker::new had an allocation refused; the exec
\* allocated nothing that was refused, threw nothing, and reports MemoryLimit.
C32_RefusalOfNewReported ==
    /\ C32_MemoryLimitFromFlag
    /\ execs = 0
    /\ ~refused /\ ~threw
    /\ trigger_exception = None /\ result = None

\* C33: abort is permanent: once abort has been called on a Worker the
\* aborted flag is never cleared, and every later exec on that Worker, for
\* any task, returns Aborted.
C33_AbortIsPermanent ==
    [][aborted =>
          /\ aborted'
          /\ \A task \in Tasks :
                ExecBegin(task) => (execs' = execs + 1 /\ reason' = Reason("Aborted"))]_vars

\* After abort an exec was called and returned Aborted; the flag is still set
\* and the termination abort requested is still pending on the isolate.
C33_AbortedStays ==
    /\ aborted /\ terminating
    /\ pc = "idle" /\ execs > 0
    /\ reason = Reason("Aborted")

\* The exec is at its return with no guard flag, no elapsed outer wait, no
\* overflow flag and no abort flag.
C34_NoFlagSet ==
    /\ AtReturn
    /\ ~cpu_limit_hit /\ ~wall_clock_hit /\ ~outerElapsed
    /\ ~memory_limit_hit /\ ~was_aborted

\* C34: when no guard flag, overflow flag or abort flag is set, a captured
\* trigger-call exception, and failing that an event-loop error, is classified
\* by its text: MemoryLimit if it contains one of the three memory patterns,
\* Exception carrying the text otherwise; the trigger-call exception is
\* classified before the event-loop error.
C34_ClassifiedByText ==
    C34_NoFlagSet =>
        /\ trigger_exception # None => reason = Classify(trigger_exception[1])
        /\ (trigger_exception = None /\ result # None) => reason = Classify(result[1])

\* A trigger-call exception was captured, no flag is set, and the exec reports
\* WallClockTimeout on account of the text of a later event-loop error.
C34_TriggerExceptionOverridden ==
    /\ C34_NoFlagSet
    /\ trigger_exception # None
    /\ ~Contains(trigger_exception[1], "wall")
    /\ result # None
    /\ reason = Reason("WallClockTimeout")

\* No flag is set and an event-loop error without a memory pattern is not
\* reported as Exception with its text.
C34_ErrorNotException ==
    /\ C34_NoFlagSet
    /\ trigger_exception = None
    /\ result # None /\ ~IsMemoryText(result[1])
    /\ reason # Exception(result[1])

\* The respond op returned Ok to the script and the handle it takes is closed.
C35_CompletedAndClosed(rid) == outcome'.result = "ok" /\ table'[rid] = "absent"

\* C35: a respond op invoked on a valid handle after the host has dropped its
\* receiving end completes without a panic and without an error raised to
\* the script, and still closes the handle it consumes: fetch_respond and
\* fetch_respond_stream_start on their FetchTx, fetch_respond_stream_chunk on
\* its FetchStreamTx (which it does not consume), scheduled_respond on its
\* ScheduledInit.
C35_RespondAfterReceiverGone ==
    [][\A rid \in Rids :
         /\ (HasResource(rid, "FetchTx") /\ OpFetchRespond(rid)) =>
               C35_CompletedAndClosed(rid)
         /\ (HasResource(rid, "FetchTx") /\ OpFetchRespondStreamStart(rid)) =>
               C35_CompletedAndClosed(rid)
         /\ (HasResource(rid, "FetchStreamTx") /\ OpFetchRespondStreamChunk(rid)) =>
               outcome'.result = "ok"
         /\ (HasResource(rid, "ScheduledInit") /\ OpScheduledRespond(rid, FALSE)) =>
               C35_CompletedAndClosed(rid)]_vars

\* scheduled_respond was called on the handle of its task, took it out of the
\* table, and panicked on the send.
C35_ScheduledRespondPanicked ==
    /\ outcome.op = "scheduled_respond"
    /\ outcome.held = "ScheduledInit"
    /\ outcome.result = "panic"
    /\ table[outcome.rid] = "absent"

\* The elements of a sequence.
C36_Range(seq) == {seq[i] : i \in DOMAIN seq}

\* Every chunk pushed is in exactly one place: received, in the channel, or
\* held by a send that is suspended or was woken with its slot.
C36_NoChunkDropped ==
    /\ C36_Range(received) \cup C36_Range(chan) \cup C36_Range(waiters)
          \cup C36_Range(granted) = 1..Len(pushed)
    /\ Len(received) + Len(chan) + Len(waiters) + Len(granted) = Len(pushed)

\* C36: the chunk channel never holds more than 16 undelivered chunks.  A
\* chunk op issued while every slot is taken suspends, and leaves the
\* suspended sends only when the consumer takes a chunk, after which it
\* enqueues its chunk; while the consumer holds the receiver no chunk is
\* dropped.
C36_BoundedWithBackpressure ==
    /\ [](Len(chan) <= STREAM_BUFFER_SIZE)
    /\ []((stream # "none" /\ rxOpen) =>
            /\ permits + Len(chan) + Len(granted) = STREAM_BUFFER_SIZE
            /\ waiters # <<>> => permits = 0
            /\ C36_NoChunkDropped)
    /\ [][(rxOpen' /\ Len(waiters') < Len(waiters)) =>
            /\ Len(received') = Len(received) + 1
            /\ granted' = Append(granted, Head(waiters))]_vars

\* The channel holds 16 chunks, the last of them enqueued by a send that had
\* been suspended on the full channel and was overtaken while it was woken.
C36_FullAfterResume ==
    /\ rxOpen
    /\ Len(chan) = STREAM_BUFFER_SIZE
    /\ \E i \in DOMAIN chan : chan[i] > chan[Len(chan)]

\* C37: once fetch_respond_stream_end has returned for a chunk handle the
\* chunk channel is closed: no further chunk is enqueued on it, also when a
\* chunk op was still suspended on backpressure at that moment, and no later
\* chunk op on the handle pushes anything.
C37_ClosedAfterEnd ==
    [][stream = "ended" => (Len(chan') <= Len(chan) /\ pushed' = pushed)]_vars

\* The stream was ended while a send was suspended or woken; the consumer
\* still holds the receiver, so the send will enqueue its chunk.
C37_EndedWithSendOutstanding ==
    /\ stream = "ended"
    /\ rxOpen
    /\ waiters # <<>> \/ granted # <<>>

\* C38: every HttpResponse delivered on a ResponseSink by fetch_respond or
\* fetch_respond_stream_start has a status in the range 100 to 599, for every
\* status value the script can pass to the op.
C38_StatusInRange ==
    \A i \in DOMAIN rx : rx[i].status >= 100 /\ rx[i].status <= 599

\* exec returned Ok and the host's receiver holds a response whose status is
\* the 600 the script passed.
C38_StatusOutOfRangeDelivered ==
    /\ AtReturn
    /\ reason = Reason("Success")
    /\ Len(rx) = 1 /\ delivered = 1
    /\ rx[1].status = respond_args[1].meta.status
    /\ rx[1].status > 599

\* A call of thread t is returning null.
C39_Refusing(t) == calls[t].pc = "loaded" /\ calls[t].loaded > max

\* The request of thread t fits: the live blocks and what it asks for stay
\* within the maximum.
C39_Fits(t) == SumSeq(live) + calls[t].n - calls[t].oldlen <= max

\* C39: when allocator calls from different threads interleave, the counter
\* never exceeds the maximum in any reachable state, and a request is refused
\* only if the total of live blocks plus the requested size really exceeds
\* the maximum: a request that fits is never refused on account of another
\* thread's request that is about to be rolled back.
C39_NoOvershootNoFalseRefusal ==
    /\ count <= max
    /\ \A t \in AllocThreads : C39_Refusing(t) => ~C39_Fits(t)

\* A request that fits is being refused: the value it loaded counts the
\* request of another thread, which exceeds the maximum and will be rolled
\* back.
C39_FittingRequestRefused ==
    \E t, u \in AllocThreads :
        /\ t # u
        /\ C39_Refusing(t) /\ C39_Fits(t)
        /\ calls[t].n > 0
        /\ calls[u].pc \in {"added", "loaded"}
        /\ ~C39_Fits(u)

\* The counter is above the maximum between the fetch_add and the rollback
\* of a request that does not fit.
C39_CounterAboveMax ==
    /\ count > max
    /\ \E t \in AllocThreads : InCall(t) /\ ~C39_Fits(t)

\* No call is in flight and the counter, with the blocks it counts, is above
\* the maximum: a request was accepted on account of a shrink that was then
\* refused and rolled back.
C39_AboveMaxAtRest ==
    /\ \A t \in AllocThreads : ~InCall(t)
    /\ count > max
    /\ count = SumSeq(live)

\* Thread t is in a reallocate that shrinks its block.
C40_Shrinking(t) ==
    /\ InCall(t)
    /\ calls[t].op = "reallocate"
    /\ calls[t].n < calls[t].oldlen

\* The counter a signed subtraction gives for the shrink of thread t.
C40_Lowered(t) == SumSeq(live) - (calls[t].oldlen - calls[t].n)

\* C40: a reallocate that shrinks a block (newlen < oldlen) is never refused
\* and lowers the counter by exactly oldlen minus newlen: after the wrapping
\* add of the wrapped difference the counter is what a signed subtraction
\* gives, neither below zero nor above the maximum; the value loaded passes
\* the test, and the call vends the block at its new length and leaves the
\* counter there.
C40_ShrinkNeverRefused ==
    /\ [](\A t \in AllocThreads :
            C40_Shrinking(t) =>
                /\ count = C40_Lowered(t)
                /\ count >= 0 /\ count <= max
                /\ calls[t].pc = "loaded" => calls[t].loaded = count)
    /\ [][\A t \in AllocThreads :
            (C40_Shrinking(t) /\ SerialDecide(t)) =>
                /\ lastPtr' = "block"
                /\ count' = C40_Lowered(t)
                /\ live' = [live EXCEPT ![calls[t].i] = calls[t].n]
                /\ count' = SumSeq(live')]_vars

\* A shrinking reallocate has added the wrapped difference and loaded the
\* counter: it is lower than before by oldlen - newlen and passes the test.
C40_ShrinkLoaded ==
    \E t \in AllocThreads :
        /\ C40_Shrinking(t)
        /\ calls[t].pc = "loaded"
        /\ calls[t].loaded = count
        /\ count = C40_Lowered(t)
        /\ count < SumSeq(live)
        /\ count <= max
        /\ Len(live) >= 2

====
